---- MODULE Spec2Model ----
(***************************************************************************)
(* Model of the stochastic spiking network (src/network) and of the Pong   *)
(* simulation loop that drives it (src/simulation/pong.py).                *)
(*                                                                         *)
(* Numbers.  Neuron states are kept in tenths (1.0 is 10, 0.5 is 5, -1.0   *)
(* is -10).  Probabilities and connection entries are fixed-point numbers  *)
(* with unit Scale (1.0 is Scale); the no-edge sentinel (NaN) is NaN.      *)
(* Python exceptions are modelled as an error name returned by the         *)
(* operator next to the state the call left behind.                        *)
(***************************************************************************)
EXTENDS Integers, Sequences, FiniteSets, TLC

VARIABLES network, rng, trace, last, pong, catch

vars == <<network, rng, trace, last, pong, catch>>

\* ------------------------------------------------------------------ bounds
\* Longest sequence of calls made on one network.
MaxCalls == 2
\* Longest sequence of calls of a scripted test on the network of the tests.
MaxScript == 3
\* Number of steps of one Pong or Catch simulation.
MaxTicks == 8
\* Number of seeds of the pseudo-random generator tried in Init.
MaxSeed == 1
\* Number of regions and of connectome entries given to a construction.
MaxRegions == 2
MaxEdges == 2
\* Largest component of the speeds given to a ball.
MaxComponent == 4
\* Largest size of a region given to a graph generation function.
MaxSize == 2

\* --------------------------------------------------------------- constants
Scale == 10000
NaN == -1
RESTING == 0
TRIGGERED == 10
DEAD == -10
recovery_state_energy_ratio == 5
state_history_size == 2
decay_coefficient == 200
exploration_rate == 100
strengthening_exponent == 2
reward_fn_period == 12
reward_fn_signal_period == 4
punish_fn_period == 48
punish_fn_min_signal_period == 4
punish_fn_max_signal_period == 8
MockUniform == 4000
\* The field of the simulations on an integer grid: the defaults of
\* scripts/initialization.py (a field of 320 x 400, a ball of radius 7.5 and
\* of speed below 12, paddles of 15 x 60) scaled down, the ball's largest
\* speed staying above its radius and the paddles' y range inside the field.
PongHeight == 8
PongWidth == 12
PongFrequency == 4
BallRadius == 1
BallMinSpeed == 1
BallMaxSpeed == 4
PaddleHalfWidth == 1
PaddleHalfHeight == 1
PaddleMinY == 2
PaddleMaxY == 6
AgentX == 2
PaddleX == 10
PaddleOrientation == 180
PidKp == 1
PidKi == 0
PidKd == 0
AgentSpeed == 1
signal_threshold == 3300
min_frequency == 1
max_frequency == 2
region_size == 1

\* ----------------------------------------------------------------- helpers
RECURSIVE SumSizes(_, _)
SumSizes(regs, k) ==
    IF k = 0 THEN 0 ELSE regs[k].size + SumSizes(regs, k - 1)

RECURSIVE Concat(_, _)
Concat(seqs, k) ==
    IF k = 0 THEN <<>> ELSE Concat(seqs, k - 1) \o seqs[k]

Full(len, v) == [i \in 1..len |-> v]

\* ------------------------------------------------------------------ Region
\* Region.get_neurons_index, 1-based.
get_neurons_index(regs, k) ==
    [i \in 1..regs[k].size |-> SumSizes(regs, k - 1) + i]

\* Position of the region called name in the network, 0 when there is none
\* (the KeyError of _region_dict_[name]).
RegionIndex(regs, name) ==
    IF \E k \in 1..Len(regs) : regs[k].name = name
    THEN CHOOSE k \in 1..Len(regs) : regs[k].name = name
    ELSE 0

\* Region.set_state: the length check, then the replacement of the state.
Region_set_state(reg, old, state) ==
    IF Len(state) # reg.size
    THEN [state |-> old, error |-> "NetworkCommunicationError"]
    ELSE [state |-> state, error |-> "none"]

\* Network.get_state: the concatenation of the regions' current states.
get_state(n) == Concat(n.region_state, Len(n.regions))

\* ------------------------------------------------------------- generator
\* numpy Generator as a deterministic stream: a full-period congruential
\* generator over 0..7 whose outputs are read from UTable.  The mock
\* generator of the tests always returns 0.4 and has no state.
UTable == <<0, 2001, 2000, 5200, 3000, 9000, 6500, 5201>>

Uniform(g) == IF g.mock THEN MockUniform ELSE UTable[g.s + 1]

Advance(g) == IF g.mock THEN g ELSE [g EXCEPT !.s = (5 * g.s + 3) % 8]

\* generator.integers(low, high): one value of low..high-1; the mock
\* generator returns (low + high) // 2.
Integer(g, low, high) == IF g.mock THEN (low + high) \div 2 ELSE low + (g.s % (high - low))

RECURSIVE Integers_(_, _, _, _)
Integers_(g, low, high, size) ==
    IF size = 0 THEN [values |-> <<>>, rng |-> g]
    ELSE LET prev == Integers_(g, low, high, size - 1)
         IN  [values |-> Append(prev.values, Integer(prev.rng, low, high)),
              rng |-> Advance(prev.rng)]

\* -------------------------------------------------- Network.propagate_signal
SignalNames(sig) == {sig[k].name : k \in 1..Len(sig)}

\* Lines 155-163: the loop that clamps the regions named by the signal.
RECURSIVE ApplySensorySignal(_, _, _, _)
ApplySensorySignal(n, sig, k, faulty) ==
    IF k > Len(sig)
    THEN [network |-> n,
          error |-> IF faulty = <<>> THEN "none" ELSE "NetworkCommunicationError",
          faulty_regions |-> faulty]
    ELSE LET name == sig[k].name
             idx == RegionIndex(n.regions, name)
         IN  IF idx = 0
             THEN ApplySensorySignal(n, sig, k + 1, Append(faulty, name))
             ELSE LET r == Region_set_state(n.regions[idx], n.region_state[idx], sig[k].state)
                  IN  IF r.error # "none"
                      THEN [network |-> n, error |-> r.error, faulty_regions |-> <<name>>]
                      ELSE ApplySensorySignal([n EXCEPT !.region_state[idx] = r.state],
                                              sig, k + 1, faulty)

\* Lines 167-169: 1 - prod_j C[i,j]^T[j], the sentinel read as 1.0.
RECURSIVE ProdRow(_, _, _)
ProdRow(row, trig, j) ==
    IF j = 0 THEN Scale
    ELSE LET c == IF row[j] = NaN THEN Scale ELSE row[j]
             f == IF trig[j] = 1 THEN c ELSE Scale
         IN  (ProdRow(row, trig, j - 1) * f) \div Scale

TriggeredNeurons(state) == [j \in 1..Len(state) |-> IF state[j] = TRIGGERED THEN 1 ELSE 0]

ProbabilityVector(conf, state) ==
    [i \in 1..Len(state) |-> Scale - ProdRow(conf[i], TriggeredNeurons(state), Len(state))]

\* Line 167 reads the attribute _state of the network, which only __init__
\* and set_state assign.
triggering_probability_vector(n) == ProbabilityVector(n.conformation, n.state)

\* An update in which a triggered neuron stays triggered.
RECURSIVE UpdateNeurons_latched(_, _, _, _, _)
UpdateNeurons_latched(states, indexes, p, g, k) ==
    IF k = 0 THEN [updated_state |-> <<>>, rng |-> g, draws |-> <<>>]
    ELSE LET prev == UpdateNeurons_latched(states, indexes, p, g, k - 1)
             s == states[k]
             u == Uniform(prev.rng)
             fire == u <= p[indexes[k]]
             drawn == [prev EXCEPT !.rng = Advance(prev.rng),
                                   !.draws = Append(prev.draws, [neuron |-> indexes[k], u |-> u])]
         IN  IF s = TRIGGERED
             THEN [prev EXCEPT !.updated_state = Append(@, TRIGGERED)]
             ELSE IF s = recovery_state_energy_ratio
             THEN [drawn EXCEPT !.updated_state =
                       Append(@, IF fire THEN recovery_state_energy_ratio ELSE RESTING)]
             ELSE IF s = RESTING
             THEN [drawn EXCEPT !.updated_state =
                       Append(@, IF fire THEN TRIGGERED ELSE RESTING)]
             ELSE IF s = DEAD
             THEN [prev EXCEPT !.updated_state = Append(@, DEAD)]
             ELSE prev

\* Lines 174-195: the update of the neurons of one region.
RECURSIVE UpdateNeurons(_, _, _, _, _)
UpdateNeurons(states, indexes, p, g, k) ==
    IF k = 0 THEN [updated_state |-> <<>>, rng |-> g, draws |-> <<>>]
    ELSE LET prev == UpdateNeurons(states, indexes, p, g, k - 1)
             s == states[k]
             u == Uniform(prev.rng)
             fire == u <= p[indexes[k]]
             drawn == [prev EXCEPT !.rng = Advance(prev.rng),
                                   !.draws = Append(prev.draws, [neuron |-> indexes[k], u |-> u])]
         IN  IF s = TRIGGERED
             THEN [prev EXCEPT !.updated_state = Append(@, recovery_state_energy_ratio)]
             ELSE IF s = recovery_state_energy_ratio
             THEN [drawn EXCEPT !.updated_state =
                       Append(@, IF fire THEN recovery_state_energy_ratio ELSE RESTING)]
             ELSE IF s = RESTING
             THEN [drawn EXCEPT !.updated_state =
                       Append(@, IF fire THEN TRIGGERED ELSE RESTING)]
             ELSE IF s = DEAD
             THEN [prev EXCEPT !.updated_state = Append(@, DEAD)]
             ELSE prev

\* Lines 171-197: the regions in assembly order, those of the signal skipped.
RECURSIVE UpdateRegions(_, _, _, _, _, _)
UpdateRegions(n, names, p, g, k, draws) ==
    IF k > Len(n.regions)
    THEN [network |-> n, rng |-> g, error |-> "none", faulty_regions |-> <<>>, draws |-> draws]
    ELSE IF n.regions[k].name \in names
    THEN UpdateRegions(n, names, p, g, k + 1, draws)
    ELSE LET up == UpdateNeurons(n.region_state[k], get_neurons_index(n.regions, k), p, g,
                                 n.regions[k].size)
             r == Region_set_state(n.regions[k], n.region_state[k], up.updated_state)
         IN  IF r.error # "none"
             THEN [network |-> n, rng |-> up.rng, error |-> r.error,
                   faulty_regions |-> <<n.regions[k].name>>, draws |-> draws \o up.draws]
             ELSE UpdateRegions([n EXCEPT !.region_state[k] = r.state], names, p, up.rng,
                                k + 1, draws \o up.draws)

\* list.append: a history that nothing bounds.
PushHistory_unbounded(hist, state) == Append(hist, state)

\* deque.append with maxlen = state_history_size.
PushHistory(hist, state) ==
    IF Len(hist) < state_history_size THEN Append(hist, state)
    ELSE Append(Tail(hist), state)

NoSignal == <<[name |-> "None", state |-> <<>>]>>

\* Network.propagate_signal.  sig is a sequence of name/state pairs in the
\* dict's insertion order, or NoSignal for sensory_signal = None.
propagate_signal(n, g, sig) ==
    LET given == IF sig = NoSignal THEN <<>> ELSE sig
        clamped == ApplySensorySignal(n, given, 1, <<>>)
    IN  IF clamped.error # "none"
        THEN [network |-> clamped.network, rng |-> g, error |-> clamped.error,
              faulty_regions |-> clamped.faulty_regions, draws |-> <<>>,
              p_fire |-> <<>>]
        ELSE LET p == triggering_probability_vector(clamped.network)
                 up == UpdateRegions(clamped.network, SignalNames(given), p, g, 1, <<>>)
             IN  IF up.error # "none"
                 THEN [network |-> up.network, rng |-> up.rng, error |-> up.error,
                       faulty_regions |-> up.faulty_regions, draws |-> up.draws,
                       p_fire |-> p]
                 ELSE [network |-> [up.network EXCEPT !.state_history =
                                        PushHistory(@, get_state(up.network))],
                       rng |-> up.rng, error |-> "none", faulty_regions |-> <<>>,
                       draws |-> up.draws, p_fire |-> p]

\* ---------------------------------------------------------- Network.set_state
RECURSIVE SetRegions(_, _, _)
SetRegions(n, state, k) ==
    IF k = 0 THEN n
    ELSE LET idx == get_neurons_index(n.regions, k)
         IN  [SetRegions(n, state, k - 1) EXCEPT
                  !.region_state[k] = [i \in 1..n.regions[k].size |-> state[idx[i]]]]

set_state(n, state) ==
    IF Len(state) # Len(n.state)
    THEN [network |-> n, error |-> "ValueError"]
    ELSE LET m == SetRegions(n, state, Len(n.regions))
         IN  [network |-> [m EXCEPT !.state = get_state(m),
                                    !.state_history = PushHistory(@, get_state(m))],
              error |-> "none"]

\* ------------------------------------------------------ Network.remove_neurons
\* generator.choice(size, k, replace=False): the mock generator of the tests
\* returns the last k positions; for the numpy generator the drawn positions
\* are an input of the call.
remove_neurons_rebuilt(n, number_neurons, region_name, indices) ==
    LET k == RegionIndex(n.regions, region_name)
    IN  IF k = 0 THEN [network |-> n, error |-> "ValueError"]
        ELSE IF number_neurons >= n.regions[k].size
        THEN [network |-> n, error |-> "ValueError"]
        ELSE [network |-> [n EXCEPT !.region_state[k] =
                               [i \in 1..n.regions[k].size |->
                                    IF i \in indices THEN DEAD ELSE RESTING]],
              error |-> "none"]

remove_neurons(n, number_neurons, region_name, indices) ==
    LET k == RegionIndex(n.regions, region_name)
    IN  IF k = 0 THEN [network |-> n, error |-> "ValueError"]
        ELSE IF number_neurons >= n.regions[k].size
        THEN [network |-> n, error |-> "ValueError"]
        ELSE [network |-> [n EXCEPT !.region_state[k] =
                               [i \in 1..n.regions[k].size |->
                                    IF i \in indices THEN DEAD ELSE @[i]]],
              error |-> "none"]

\* -------------------------------------------------- Network.optimize_connections
RECURSIVE InternalIndexes(_, _)
InternalIndexes(regs, k) ==
    IF k = 0 THEN <<>>
    ELSE InternalIndexes(regs, k - 1) \o
         (IF regs[k].internal THEN get_neurons_index(regs, k) ELSE <<>>)

internal_regions_indexes(n) == InternalIndexes(n.regions, Len(n.regions))

Select(vec, idx) == [a \in 1..Len(idx) |-> vec[idx[a]]]

get_internal_state(n) == Select(get_state(n), internal_regions_indexes(n))

\* The previous state read from the newest snapshot of the history.
get_last_internal_state_newest(n) ==
    Select(n.state_history[Len(n.state_history)], internal_regions_indexes(n))

get_last_internal_state(n) ==
    Select(n.state_history[Len(n.state_history) - 1], internal_regions_indexes(n))

get_internal_conformation(n) ==
    LET idx == internal_regions_indexes(n)
    IN  [a \in 1..Len(idx) |-> [b \in 1..Len(idx) |-> n.conformation[idx[a]][idx[b]]]]

\* A decay that adds the coefficient without shrinking the entry first.
Decay_additive(c) == IF c = NaN THEN NaN ELSE decay_coefficient + c

Decay(c) ==
    IF c = NaN THEN NaN
    ELSE (decay_coefficient * Scale + (Scale - decay_coefficient) * c) \div Scale

Explore(c) == IF c = NaN THEN NaN ELSE (c * (Scale - exploration_rate)) \div Scale

RECURSIVE Power(_, _)
Power(c, e) == IF e = 0 THEN Scale ELSE (Power(c, e - 1) * c) \div Scale

Strengthen(c) == IF c = NaN THEN NaN ELSE Power(c, strengthening_exponent)

\* Lines 210-215 for one triggered neuron a: the neighbours b in order.
RECURSIVE VisitNeighbors(_, _, _, _)
VisitNeighbors(ic, a, last_state, b) ==
    IF b = 0 THEN ic
    ELSE LET before == VisitNeighbors(ic, a, last_state, b - 1)
             explored == [before EXCEPT ![b][a] = Explore(@)]
         IN  IF last_state[b] = TRIGGERED
             THEN [explored EXCEPT ![a][b] = Strengthen(@)]
             ELSE explored

\* Lines 208-215: the internal neurons in order.
RECURSIVE VisitNeurons(_, _, _, _)
VisitNeurons(ic, cur_state, last_state, a) ==
    IF a = 0 THEN ic
    ELSE LET before == VisitNeurons(ic, cur_state, last_state, a - 1)
         IN  IF cur_state[a] = TRIGGERED
             THEN VisitNeighbors(before, a, last_state, Len(last_state))
             ELSE before

\* Position of the neuron i in the list of internal indexes, 0 when external.
InternalPosition(idx, i) ==
    IF \E a \in 1..Len(idx) : idx[a] = i
    THEN CHOOSE a \in 1..Len(idx) : idx[a] = i
    ELSE 0

\* The decay applied to the whole matrix, the rows and columns of the
\* external regions included.
optimize_connections_everywhere(n) ==
    LET idx == internal_regions_indexes(n)
        ic == VisitNeurons(get_internal_conformation(n), get_internal_state(n),
                           get_last_internal_state(n), Len(idx))
    IN  [n EXCEPT !.conformation =
            [i \in 1..Len(n.state) |-> [j \in 1..Len(n.state) |->
                IF InternalPosition(idx, i) # 0 /\ InternalPosition(idx, j) # 0
                THEN Decay(ic[InternalPosition(idx, i)][InternalPosition(idx, j)])
                ELSE Decay(@[i][j])]]]

optimize_connections(n) ==
    LET idx == internal_regions_indexes(n)
        internal_state == get_internal_state(n)
        last_internal_state == get_last_internal_state(n)
        ic0 == get_internal_conformation(n)
        decayed == [a \in 1..Len(idx) |-> [b \in 1..Len(idx) |-> Decay(ic0[a][b])]]
        ic == VisitNeurons(decayed, internal_state, last_internal_state, Len(idx))
    IN  [n EXCEPT !.conformation =
            [i \in 1..Len(n.state) |-> [j \in 1..Len(n.state) |->
                IF InternalPosition(idx, i) # 0 /\ InternalPosition(idx, j) # 0
                THEN ic[InternalPosition(idx, i)][InternalPosition(idx, j)]
                ELSE @[i][j]]]]

\* ------------------------------------------------------------ Network.reward
sensory_regions_names(n) ==
    LET ext == {k \in 1..Len(n.regions) : ~n.regions[k].internal}
        f[k \in 0..Len(n.regions)] ==
            IF k = 0 THEN <<>>
            ELSE IF k \in ext THEN Append(f[k - 1], n.regions[k].name) ELSE f[k - 1]
    IN  f[Len(n.regions)]

\* Lines 225-230: the signal of sub-tick i.
RewardSignal(n, i) ==
    LET names == sensory_regions_names(n)
    IN  [k \in 1..Len(names) |->
            [name |-> names[k],
             state |-> IF i % reward_fn_signal_period = 0 THEN <<TRIGGERED>> ELSE <<RESTING>>]]

\* One sub-tick of reward or punish: propagate_signal, then
\* optimize_connections unless propagate_signal raised.
SubTick(acc, sig) ==
    LET r == propagate_signal(acc.network, acc.rng, sig)
    IN  IF r.error # "none"
        THEN [network |-> r.network, rng |-> r.rng, error |-> r.error,
              faulty_regions |-> r.faulty_regions,
              subticks |-> acc.subticks, draws |-> acc.draws \o r.draws]
        ELSE [network |-> optimize_connections(r.network), rng |-> r.rng, error |-> "none",
              faulty_regions |-> <<>>,
              subticks |-> Append(acc.subticks, sig), draws |-> acc.draws \o r.draws]

LoopStart(n, g) ==
    [network |-> n, rng |-> g, error |-> "none", faulty_regions |-> <<>>,
     subticks |-> <<>>, draws |-> <<>>]

\* Lines 224-233: the sub-ticks lo..hi-1 in order, stopping at the first one
\* that raises (the range is halved to keep the evaluation shallow).
RECURSIVE RewardLoop(_, _, _, _)
RewardLoop(n, acc, lo, hi) ==
    IF acc.error # "none" \/ lo >= hi THEN acc
    ELSE IF hi = lo + 1 THEN SubTick(acc, RewardSignal(n, lo))
    ELSE RewardLoop(n, RewardLoop(n, acc, lo, (lo + hi) \div 2), (lo + hi) \div 2, hi)

reward(n, g) == RewardLoop(n, LoopStart(n, g), 0, reward_fn_period)

\* ---------------------------------------------------- Network.get_motor_signal
\* The error raised for an unknown name: line 310 builds
\* NetworkCommunicationError without its required argument faulty_regions.
MotorSignalError == "TypeError"

RECURSIVE SumSeq(_, _)
SumSeq(s, k) == IF k = 0 THEN 0 ELSE s[k] + SumSeq(s, k - 1)

\* Mean of the states (tenths) of the region k in one snapshot, in Scale units.
RegionMean(n, snapshot, k) ==
    LET idx == get_neurons_index(n.regions, k)
    IN  (SumSeq(Select(snapshot, idx), Len(idx)) * (Scale \div 10)) \div Len(idx)

\* The motor signal read from the newest snapshot alone.
get_motor_signal_newest(n, accessed_regions) ==
    IF \E a \in 1..Len(accessed_regions) : RegionIndex(n.regions, accessed_regions[a]) = 0
    THEN [signal |-> <<>>, error |-> MotorSignalError]
    ELSE [signal |-> [a \in 1..Len(accessed_regions) |->
                         RegionMean(n, n.state_history[Len(n.state_history)],
                                    RegionIndex(n.regions, accessed_regions[a]))],
          error |-> "none"]

get_motor_signal(n, accessed_regions) ==
    IF \E a \in 1..Len(accessed_regions) : RegionIndex(n.regions, accessed_regions[a]) = 0
    THEN [signal |-> <<>>, error |-> MotorSignalError]
    ELSE [signal |-> [a \in 1..Len(accessed_regions) |->
                         SumSeq([h \in 1..Len(n.state_history) |->
                                    RegionMean(n, n.state_history[h],
                                               RegionIndex(n.regions, accessed_regions[a]))],
                                Len(n.state_history)) \div state_history_size],
          error |-> "none"]

\* ----------------------------------- ConstantSpeedNetworkController.__init__
\* NetworkController.__init__ turns the NetworkCommunicationError of
\* get_motor_signal into ControllerInitializationError and lets every other
\* exception through; the subclass then checks the number of regions.
ConstantSpeedNetworkController_init(n, accessed_regions) ==
    LET r == get_motor_signal(n, accessed_regions)
    IN  IF r.error = "NetworkCommunicationError" THEN "ControllerInitializationError"
        ELSE IF r.error # "none" THEN r.error
        ELSE IF Len(accessed_regions) # 2 THEN "ControllerInitializationError"
        ELSE "none"

\* ------------------------------------------------- Network.compute_free_energy
\* Binary entropy -p log2 p - (1-p) log2 (1-p) in Scale units, tabulated at
\* the multiples of 0.05 and read at the nearest entry below p.
EntropyTable == <<0, 2864, 4690, 6098, 7219, 8113, 8813, 9341, 9710, 9928, 10000, 9928, 9710, 9341, 8813, 8113, 7219, 6098, 4690, 2864, 0>>

BinaryEntropy(p) == EntropyTable[(p * 20) \div Scale + 1]

compute_free_energy_indicator(n) ==
    LET state == get_state(n)
        p == ProbabilityVector(n.conformation, state)
        entropy == SumSeq([i \in 1..Len(state) |->
                              IF state[i] = RESTING \/ state[i] = recovery_state_energy_ratio
                              THEN BinaryEntropy(p[i]) ELSE 0], Len(state))
        internal_state == get_internal_state(n)
        potential == 0 - Scale * Cardinality({i \in 1..Len(internal_state) :
                                                internal_state[i] = TRIGGERED})
        free_energy == potential - entropy
    IN  [network |-> [n EXCEPT !.free_energy_history = Append(@, free_energy)],
         value |-> free_energy]

compute_free_energy(n) ==
    LET state == get_state(n)
        p == ProbabilityVector(n.conformation, state)
        entropy == SumSeq([i \in 1..Len(state) |->
                              IF state[i] = RESTING \/ state[i] = recovery_state_energy_ratio
                              THEN BinaryEntropy(p[i]) ELSE 0], Len(state))
        internal_state == get_internal_state(n)
        potential == 0 - SumSeq(internal_state, Len(internal_state)) * (Scale \div 10)
        free_energy == potential - entropy
    IN  [network |-> [n EXCEPT !.free_energy_history = Append(@, free_energy)],
         value |-> free_energy]

\* ------------------------------------------------------------ Network.punish
\* Lines 244-252: the signal of sub-tick i.
PunishSignal(n, periods, delays, i) ==
    LET names == sensory_regions_names(n)
    IN  [k \in 1..Len(names) |->
            [name |-> names[k],
             state |-> Full(n.regions[RegionIndex(n.regions, names[k])].size,
                            IF i >= delays[k] /\ (i - delays[k]) % periods[k] = 0
                            THEN TRIGGERED ELSE RESTING)]]

\* Lines 243-255: the sub-ticks lo..hi-1 in order.
RECURSIVE PunishLoop(_, _, _, _, _, _)
PunishLoop(n, acc, periods, delays, lo, hi) ==
    IF acc.error # "none" \/ lo >= hi THEN acc
    ELSE IF hi = lo + 1 THEN SubTick(acc, PunishSignal(n, periods, delays, lo))
    ELSE PunishLoop(n, PunishLoop(n, acc, periods, delays, lo, (lo + hi) \div 2),
                    periods, delays, (lo + hi) \div 2, hi)

punish(n, g) ==
    LET count == Len(sensory_regions_names(n))
        periods == Integers_(g, punish_fn_min_signal_period, punish_fn_max_signal_period, count)
        delays == Integers_(periods.rng, 0, punish_fn_period \div 2, count)
    IN  PunishLoop(n, LoopStart(n, delays.rng), periods.values, delays.values,
                   0, punish_fn_period)

\* ------------------------------------------------------------ Network.__init__
\* The network of src/test/test_network.py: region1 (external, 2 neurons) and
\* region2 (internal, 7 neurons), every existing edge at 0.8.
TestRegions == <<[name |-> "region1", size |-> 2, internal |-> FALSE],
                 [name |-> "region2", size |-> 7, internal |-> TRUE]>>

TestEdge(i, j) ==
    /\ i >= 3
    /\ i # j
    /\ j <= 2 => i \in {3, 5, 8}

TestConformation ==
    [i \in 1..9 |-> [j \in 1..9 |-> IF TestEdge(i, j) THEN 8000 ELSE NaN]]

test_network_state == <<10, 0, 10, 5, 0, 0, 0, 5, 10>>

\* Two more networks, with edges of different strengths: a sensory region
\* of one neuron with an internal region of two, and a sensory region of two
\* neurons with an internal region of two.
SmallRegions == <<[name |-> "s0", size |-> 1, internal |-> FALSE],
                  [name |-> "i0", size |-> 2, internal |-> TRUE]>>

SmallConformation == <<<<NaN, NaN, NaN>>, <<8000, NaN, 6000>>, <<5000, 7000, NaN>>>>

WideRegions == <<[name |-> "s0", size |-> 2, internal |-> FALSE],
                 [name |-> "i0", size |-> 2, internal |-> TRUE]>>

WideConformation == <<<<NaN, NaN, NaN, NaN>>, <<NaN, NaN, NaN, NaN>>,
                      <<8000, 5000, NaN, 6000>>, <<NaN, 7000, 4000, NaN>>>>

\* A network whose edges sit on the ends of [0, 1]: connectome values 1 and 0.
EdgeConformation == <<<<NaN, NaN, NaN>>, <<0, NaN, Scale>>, <<Scale, 0, NaN>>>>

\* Lines 97-125: the fields of a freshly built network.
NewNetwork(regs, conf) ==
    LET zeros == [k \in 1..Len(regs) |-> Full(regs[k].size, RESTING)]
        state == Concat(zeros, Len(regs))
    IN  [regions |-> regs,
         region_state |-> zeros,
         state |-> state,
         state_history |-> Full(state_history_size, state),
         conformation |-> conf,
         free_energy_history |-> <<>>]

\* Lines 64-81 and 116-125: the checks of the constructor's arguments and
\* the conformation built from the connectome.  The connectome is the set of
\* its <<source, target>> entries, each with the transmission probability
\* ConnectomeValue; line 78 discards the union with the target names, so
\* that referenced_regions holds the source keys only.
ConnectomeValue == 2000

NoNetwork == [built |-> FALSE]

RegionNames(regs) == {regs[k].name : k \in 1..Len(regs)}

DuplicateNames(regs) == \E k, h \in 1..Len(regs) : k < h /\ regs[k].name = regs[h].name

referenced_regions(connectome) == {e[1] : e \in connectome}

\* The region a neuron index (from 1) belongs to.
RegionOf(regs, i) ==
    CHOOSE k \in 1..Len(regs) : i \in {get_neurons_index(regs, k)[a] : a \in 1..regs[k].size}

BuildConformation(regs, connectome) ==
    [i \in 1..SumSizes(regs, Len(regs)) |->
        [j \in 1..SumSizes(regs, Len(regs)) |->
            IF <<regs[RegionOf(regs, j)].name, regs[RegionOf(regs, i)].name>> \in connectome
            THEN Scale - ConnectomeValue
            ELSE NaN]]

Network_init(regs, connectome) ==
    IF regs = <<>> THEN [network |-> NoNetwork, error |-> "ValueError"]
    ELSE IF DuplicateNames(regs)
    THEN [network |-> NoNetwork, error |-> "NetworkInitializationError"]
    ELSE IF referenced_regions(connectome) \ RegionNames(regs) # {}
    THEN [network |-> NoNetwork, error |-> "ValueError"]
    ELSE [network |-> NewNetwork(regs, BuildConformation(regs, connectome)),
          error |-> "none"]

\* ==================================================================== Pong
\* The simulation runs on an integer grid: centers, speeds and sizes are
\* integers, paddles are rectangles at orientation 0 or 180, and the
\* geometry tolerance is below the grid step.  The classes Point
\* (geometry/point.py) and Vector2D (geometry/vector.py) are the same 2D
\* vector under two names and are modelled as one.
NoSimulation == [built |-> FALSE]

Dot(a, b) == a.x * b.x + a.y * b.y

Add(a, b) == [x |-> a.x + b.x, y |-> a.y + b.y]

Sub(a, b) == [x |-> a.x - b.x, y |-> a.y - b.y]

Times(c, a) == [x |-> c * a.x, y |-> c * a.y]

squared_norm(a) == Dot(a, a)

\* Vector2D.projection and Vector2D.reflection on a unit axis vector.
projection(a, n) == Times(Dot(a, n), n)

reflection(a, n) == Sub(a, Times(2, projection(a, n)))

\* Vector2D.rotate for the angles 0 and 180.
rotate(a, angle) == IF angle = 180 THEN Times(0 - 1, a) ELSE a

Min(a, b) == IF a <= b THEN a ELSE b

Max(a, b) == IF a >= b THEN a ELSE b

Abs(a) == IF a < 0 THEN 0 - a ELSE a

\* ---------------------------------------------------------------- Rectangle
translate_to_local(shape, global_point) ==
    rotate(Sub(global_point, shape.center), shape.orientation)

Rectangle_contains_point(shape, global_point) ==
    LET l == translate_to_local(shape, global_point)
    IN  Abs(l.x) <= PaddleHalfWidth /\ Abs(l.y) <= PaddleHalfHeight

\* Rectangle.get_closest_point; the containment test of line 92 is applied
\* to the local point as the code does (contains_point expects a global one).
get_closest_point(shape, l) ==
    LET cx == Max(0 - PaddleHalfWidth, Min(l.x, PaddleHalfWidth))
        cy == Max(0 - PaddleHalfHeight, Min(l.y, PaddleHalfHeight))
        dist_left == Abs(l.x + PaddleHalfWidth)
        dist_right == Abs(l.x - PaddleHalfWidth)
        dist_top == Abs(l.y - PaddleHalfHeight)
        dist_bottom == Abs(l.y + PaddleHalfHeight)
    IN  IF Rectangle_contains_point(shape, l)
        THEN IF Min(dist_left, dist_right) <= Min(dist_top, dist_bottom)
             THEN [x |-> IF dist_left < dist_right THEN 0 - PaddleHalfWidth ELSE PaddleHalfWidth,
                   y |-> cy]
             ELSE [x |-> cx,
                   y |-> IF dist_bottom < dist_top THEN 0 - PaddleHalfHeight ELSE PaddleHalfHeight]
        ELSE [x |-> cx, y |-> cy]

\* Rectangle.collides_with for a circle.
Rectangle_collides_with(shape, center) ==
    \/ Rectangle_contains_point(shape, center)
    \/ LET l == translate_to_local(shape, center)
       IN  squared_norm(Sub(l, get_closest_point(shape, l))) <= BallRadius * BallRadius

\* Rectangle.get_edge_normal_vector: the edges in the order top, right,
\* bottom, left; the first whose line holds the point.
get_edge_normal_vector(l) ==
    IF l.y = PaddleHalfHeight THEN [x |-> 0, y |-> 1]
    ELSE IF l.x = PaddleHalfWidth THEN [x |-> 1, y |-> 0]
    ELSE IF l.y = 0 - PaddleHalfHeight THEN [x |-> 0, y |-> 0 - 1]
    ELSE [x |-> 0 - 1, y |-> 0]

\* --------------------------------------------------------------------- Ball
InRange(speed) ==
    /\ BallMinSpeed * BallMinSpeed < squared_norm(speed)
    /\ squared_norm(speed) < BallMaxSpeed * BallMaxSpeed

\* Ball.set_state(speed=...): the check of the speed envelope.
Ball_set_speed(ball, speed) ==
    IF InRange(speed) THEN [ball |-> [ball EXCEPT !.speed = speed], error |-> "none"]
    ELSE [ball |-> ball, error |-> "ValueError"]

\* Smallest integer whose square is at least n.
CeilSqrt(n) == CHOOSE r \in 0..n : r * r >= n /\ (r = 0 \/ (r - 1) * (r - 1) < n)

\* (bound / norm) * speed on the grid, each component rounded towards zero.
Rescale(speed, bound) ==
    LET norm == CeilSqrt(squared_norm(speed))
        scaled(c) == IF c >= 0 THEN (bound * c) \div norm ELSE 0 - ((bound * (0 - c)) \div norm)
    IN  [x |-> scaled(speed.x), y |-> scaled(speed.y)]

\* Ball.adjust_speed.  Lines 41-42 divide by the norm of the speed: a zero
\* speed under a positive minimum raises ZeroDivisionError.
adjust_speed(ball) ==
    LET n2 == squared_norm(ball.speed)
    IN  IF n2 < BallMinSpeed * BallMinSpeed
        THEN IF n2 = 0
             THEN [ball |-> ball, error |-> "ZeroDivisionError"]
             ELSE [ball |-> [ball EXCEPT !.speed = Rescale(ball.speed, BallMinSpeed)],
                   error |-> "none"]
        ELSE IF n2 > BallMaxSpeed * BallMaxSpeed
        THEN [ball |-> [ball EXCEPT !.speed = Rescale(ball.speed, BallMaxSpeed)],
              error |-> "none"]
        ELSE [ball |-> ball, error |-> "none"]

\* Element.update: the center moves by the speed, the speed by the acceleration.
Element_update(ball, acceleration) ==
    [ball EXCEPT !.center = Add(@, ball.speed), !.speed = Add(@, acceleration)]

\* Ball.update.
Ball_update(ball, acceleration) == adjust_speed(Element_update(ball, acceleration))

\* The acceleration of the balls of the simulations.
NoAcceleration == [x |-> 0, y |-> 0]

\* ------------------------------------------------------------------- Paddle
adjust_position(paddle) ==
    IF paddle.center.y < PaddleMinY
    THEN [paddle EXCEPT !.center.y = PaddleMinY, !.speed = [x |-> 0, y |-> 0]]
    ELSE IF paddle.center.y > PaddleMaxY
    THEN [paddle EXCEPT !.center.y = PaddleMaxY, !.speed = [x |-> 0, y |-> 0]]
    ELSE paddle

\* VerticalPositionPIDController.update followed by the paddle's own update.
PID_update(paddle, ball) ==
    LET error == ball.center.y - paddle.center.y
        cumulative == paddle.cumulative_error + error
        differential == IF paddle.has_last_error THEN error - paddle.last_error ELSE 0
        correction == PidKp * error + PidKi * cumulative + PidKd * differential
    IN  [paddle EXCEPT !.cumulative_error = cumulative, !.has_last_error = TRUE,
                       !.last_error = error, !.speed = [x |-> 0, y |-> correction]]

Paddle_update(paddle, ball) ==
    LET controlled == PID_update(paddle, ball)
    IN  adjust_position([controlled EXCEPT !.center = Add(@, controlled.speed)])

\* ConstantSpeedNetworkController.update followed by the paddle's own update.
Agent_update(agent, n) ==
    LET signal == get_motor_signal(n, <<"e0", "e1">>).signal
        forward == IF signal[1] >= signal_threshold THEN AgentSpeed ELSE 0
        backward == IF signal[2] >= signal_threshold THEN AgentSpeed ELSE 0
    IN  adjust_position([agent EXCEPT !.center.y = @ + forward - backward + agent.speed.y])

\* ----------------------------------------------------- PongSignalTranslator
\* generate_sensory_signal: timer >= frequency / signal_frequency, with
\* signal_frequency = max + (x / width) (min - max), compared crosswise.
TranslatorFires(timer, ball) ==
    \/ timer = 0 - 1
    \/ timer * (max_frequency * PongWidth + ball.center.x * (min_frequency - max_frequency))
           >= PongFrequency * PongWidth

TranslatorNames == <<"s0", "s1">>

generate_sensory_signal(timer, ball) ==
    LET slot == Min((ball.center.y * Len(TranslatorNames)) \div PongHeight,
                    Len(TranslatorNames) - 1)
    IN  IF TranslatorFires(timer, ball)
        THEN [signal |-> [k \in 1..Len(TranslatorNames) |->
                             [name |-> TranslatorNames[k],
                              state |-> Full(region_size,
                                             IF k - 1 = slot THEN TRIGGERED ELSE RESTING)]],
              timer |-> 0]
        ELSE [signal |-> NoSignal, timer |-> timer + 1]

\* ---------------------------------------------------------------- Pong.step
\* pong.py lines 104 and 110 call network.reward() without the generator
\* that Network.reward (network.py line 219) requires: the call raises
\* TypeError before the body of reward runs.
reward_without_generator(n, g) == [LoopStart(n, g) EXCEPT !.error = "TypeError"]

\* Pong.regenerate_ball: a point of the generation area (the middle of the
\* field) and an orientation of 135 or 225 degrees, from three uniform draws;
\* the reference speed is the norm of the initial speeds (BallSpeeds).
regenerate_ball(ball, g) ==
    LET gx == Advance(g)
        gy == Advance(gx)
        x == PongWidth \div 2 - 1 + (Uniform(g) * 3) \div Scale
        y == PongHeight \div 2 - 2 + (Uniform(gx) * 5) \div Scale
        speed == [x |-> 0 - 1, y |-> IF Uniform(gy) < Scale \div 2 THEN 1 ELSE 0 - 1]
    IN  [ball |-> [ball EXCEPT !.center = [x |-> x, y |-> y], !.speed = speed],
         rng |-> Advance(gy)]

\* Pong.resolve_collision_with_paddle.
resolve_collision_with_paddle(ball, paddle) ==
    LET closest == get_closest_point(paddle, translate_to_local(paddle, ball.center))
        normal == rotate(get_edge_normal_vector(closest), paddle.orientation)
        speed_adjustment == projection(paddle.speed, normal)
    IN  Ball_set_speed(ball, IF Dot(ball.speed, normal) <= 0
                             THEN Add(reflection(ball.speed, normal), speed_adjustment)
                             ELSE Add(ball.speed, speed_adjustment))

\* Lines 98-102: the left wall, r being the outcome of network.punish.
LeftWall(same, r) ==
    LET b == regenerate_ball(same.sim.ball, r.rng)
    IN  IF r.error # "none"
        THEN [same EXCEPT !.network = r.network, !.rng = r.rng, !.error = r.error,
                          !.rule = "left", !.replay = Len(r.subticks)]
        ELSE [same EXCEPT !.network = r.network, !.rng = b.rng, !.rule = "left",
                          !.replay = Len(r.subticks),
                          !.sim.success_rate_history = Append(@, <<FALSE, same.sim.timer>>),
                          !.sim.ball = b.ball,
                          !.sim.translator_timer = 0 - 1]

\* Lines 103-106: the right wall, r being the outcome of network.reward.
RightWall(same, r) ==
    LET b == regenerate_ball(same.sim.ball, r.rng)
    IN  IF r.error # "none"
        THEN [same EXCEPT !.network = r.network, !.rng = r.rng, !.error = r.error,
                          !.rule = "right", !.replay = Len(r.subticks)]
        ELSE [same EXCEPT !.network = r.network, !.rng = b.rng, !.rule = "right",
                          !.replay = Len(r.subticks),
                          !.sim.ball = b.ball,
                          !.sim.translator_timer = 0 - 1]

\* The branch the if / elif chain of lines 95-109 takes, left wall tested
\* before the top and bottom walls.
matching_rule_left_first(sim) ==
    IF sim.ball.center.x <= BallRadius THEN "left"
    ELSE IF sim.ball.center.y <= BallRadius \/ PongHeight - sim.ball.center.y <= BallRadius
    THEN "wall"
    ELSE IF PongWidth - sim.ball.center.x <= BallRadius THEN "right"
    ELSE IF Rectangle_collides_with(sim.paddle, sim.ball.center) THEN "paddle"
    ELSE IF Rectangle_collides_with(sim.agent, sim.ball.center) THEN "agent"
    ELSE "none"

\* The branch the if / elif chain of lines 95-109 takes.
matching_rule(sim) ==
    IF sim.ball.center.y <= BallRadius \/ PongHeight - sim.ball.center.y <= BallRadius
    THEN "wall"
    ELSE IF sim.ball.center.x <= BallRadius THEN "left"
    ELSE IF PongWidth - sim.ball.center.x <= BallRadius THEN "right"
    ELSE IF Rectangle_collides_with(sim.paddle, sim.ball.center) THEN "paddle"
    ELSE IF Rectangle_collides_with(sim.agent, sim.ball.center) THEN "agent"
    ELSE "none"

\* Pong.check_ball_collisions: sim is the simulation after the elements'
\* update.  The result names the rule applied and the replay it ran.
check_ball_collisions(sim, n, g) ==
    LET ball == sim.ball
        rule == matching_rule(sim)
        same == [sim |-> sim, network |-> n, rng |-> g, error |-> "none", rule |-> "none",
                 replay |-> 0]
    IN  IF rule = "wall"
        THEN LET r == Ball_set_speed(ball, reflection(ball.speed, [x |-> 0, y |-> 1]))
             IN  [same EXCEPT !.sim.ball = r.ball, !.error = r.error, !.rule = "wall"]
        ELSE IF rule = "left"
        THEN CHOOSE out \in {LeftWall(same, r) : r \in {punish(n, g)}} : TRUE
        ELSE IF rule = "right"
        THEN CHOOSE out \in {RightWall(same, r) : r \in {reward_without_generator(n, g)}} : TRUE
        ELSE IF rule = "paddle"
        THEN LET r == resolve_collision_with_paddle(ball, sim.paddle)
             IN  [same EXCEPT !.sim.ball = r.ball, !.error = r.error, !.rule = "paddle"]
        ELSE IF rule = "agent"
        THEN LET r == reward_without_generator(n, g)
                 b == resolve_collision_with_paddle(ball, sim.agent)
             IN  IF r.error # "none"
                 THEN [same EXCEPT !.network = r.network, !.rng = r.rng, !.error = r.error,
                                   !.rule = "agent", !.replay = Len(r.subticks)]
                 ELSE [same EXCEPT !.network = r.network, !.rng = r.rng, !.rule = "agent",
                                   !.replay = Len(r.subticks),
                                   !.sim.success_rate_history = Append(@, <<TRUE, sim.timer>>),
                                   !.sim.ball = b.ball, !.error = b.error]
        ELSE same

\* Simulation.step: the elements in the order ball, paddle, agent, then the
\* record of their centers and the tick.
Simulation_step(sim, n) ==
    LET moved == Ball_update(sim.ball, NoAcceleration)
        ball == moved.ball
        paddle == Paddle_update(sim.paddle, ball)
        agent == Agent_update(sim.agent, n)
    IN  IF moved.error # "none"
        THEN [sim EXCEPT !.ball = ball, !.error = moved.error, !.stage = "update"]
        ELSE [sim EXCEPT !.ball = ball, !.paddle = paddle, !.agent = agent,
                         !.env_history = Append(@, <<ball.center, paddle.center,
                                                     agent.center>>),
                         !.timer = @ + 1]

\* Pong.step after check_ball_collisions (hit): lines 88-90.  An exception
\* leaves the simulation as the statements before it made it and is
\* recorded in error; stage tells how far the step went.
Propagation(hit, sensed, sent) ==
    LET base == [hit.sim EXCEPT !.rule = hit.rule, !.replay = hit.replay]
    IN  IF sent.error # "none"
        THEN [sim |-> [base EXCEPT !.error = sent.error, !.stage = "propagate",
                                   !.translator_timer = sensed.timer],
              network |-> sent.network, rng |-> sent.rng]
        ELSE [sim |-> [base EXCEPT !.stage = "done", !.translator_timer = sensed.timer],
              network |-> compute_free_energy(optimize_connections(sent.network)).network,
              rng |-> sent.rng]

AfterCollisions(hit) ==
    IF hit.error # "none"
    THEN [sim |-> [hit.sim EXCEPT !.rule = hit.rule, !.replay = hit.replay,
                                  !.error = hit.error, !.stage = "collisions"],
          network |-> hit.network, rng |-> hit.rng]
    ELSE CHOOSE out \in
             {Propagation(hit, sensed, propagate_signal(hit.network, hit.rng, sensed.signal)) :
                 sensed \in {generate_sensory_signal(hit.sim.translator_timer, hit.sim.ball)}} :
             TRUE

\* The shape objects of a ball and of a paddle, as read now.
Circle(ball) == [center |-> ball.center, radius |-> BallRadius]

Rectangle(paddle) ==
    [center |-> paddle.center, width |-> 2 * PaddleHalfWidth,
     height |-> 2 * PaddleHalfHeight, orientation |-> paddle.orientation]

\* The first entry of env_history is the tuple of the elements' shape
\* objects themselves (base_simulation.py line 65), not a copy: whoever reads
\* it reads the shapes as they are now.
Pong_shapes(sim) == <<Circle(sim.ball), Rectangle(sim.paddle), Rectangle(sim.agent)>>

\* Pong.step.
Pong_step(sim, n, g) ==
    CHOOSE out \in
        {[moved EXCEPT !.sim.env_history[1] = Pong_shapes(moved.sim)] :
            moved \in {IF updated.error # "none"
                        THEN [sim |-> updated, network |-> n, rng |-> g]
                        ELSE AfterCollisions(check_ball_collisions(updated, n, g)) :
                          updated \in {Simulation_step(sim, n)}}} : TRUE

\* The network of a Pong agent: two sensory regions, two motor regions.
PongRegions == <<[name |-> "s0", size |-> 1, internal |-> FALSE],
                 [name |-> "s1", size |-> 1, internal |-> FALSE],
                 [name |-> "e0", size |-> 1, internal |-> TRUE],
                 [name |-> "e1", size |-> 1, internal |-> TRUE]>>

PongConformation == <<<<NaN, NaN, NaN, NaN>>, <<NaN, NaN, NaN, NaN>>,
                      <<2000, NaN, NaN, 5000>>, <<NaN, 2000, 5000, NaN>>>>

\* Pong.__init__ and Simulation.__init__.
NewPong(center, speed) ==
    LET ball == [center |-> center, speed |-> speed]
        paddle == [center |-> [x |-> PaddleX, y |-> PongHeight \div 2],
                   speed |-> [x |-> 0, y |-> 0], orientation |-> PaddleOrientation,
                   cumulative_error |-> 0, has_last_error |-> FALSE, last_error |-> 0]
        agent == [center |-> [x |-> AgentX, y |-> PongHeight \div 2],
                  speed |-> [x |-> 0, y |-> 0], orientation |-> 0]
    IN  [built |-> TRUE, ball |-> ball, paddle |-> paddle, agent |-> agent,
         env_history |-> <<<<Circle(ball), Rectangle(paddle), Rectangle(agent)>>,
                           <<ball.center, paddle.center, agent.center>>>>,
         timer |-> 0, success_rate_history |-> <<>>, translator_timer |-> 0 - 1,
         error |-> "none", rule |-> "none", replay |-> 0, stage |-> "init"]

BallCenters == {[x |-> 6, y |-> 4], [x |-> 4, y |-> 3], [x |-> 9, y |-> 2], [x |-> 3, y |-> 6],
                [x |-> 2, y |-> 6]}

BallSpeeds == {[x |-> 0 - 1, y |-> 1], [x |-> 0 - 1, y |-> 0 - 1], [x |-> 1, y |-> 1],
               [x |-> 1, y |-> 0 - 1]}

\* -------------------------------------------------------------------- Catch
\* Paddle.set_state(position=...): the position must lie strictly inside the
\* paddle's y range.
Paddle_set_position(paddle, position) ==
    IF PaddleMinY < position.y /\ position.y < PaddleMaxY
    THEN [paddle |-> [paddle EXCEPT !.center = position], error |-> "none"]
    ELSE [paddle |-> paddle, error |-> "ValueError"]

\* Catch.reset_agent_position.
reset_agent_position(sim) == Paddle_set_position(sim.agent, sim.agent_initial_position)

\* Catch.regenerate_ball: Ball.set_state with the fixed position and speed.
Catch_regenerate_ball(sim) ==
    IF InRange(sim.ball_reference_speed)
    THEN [ball |-> [center |-> sim.ball_initial_position,
                    speed |-> sim.ball_reference_speed], error |-> "none"]
    ELSE [ball |-> sim.ball, error |-> "ValueError"]

\* The statements that follow punish (lines 109-112) and reward (lines
\* 137-142), r being the outcome of that call and success the logged flag.
end_rally(same, r, success, rule) ==
    LET logged == [same EXCEPT !.network = r.network, !.rng = r.rng, !.rule = rule,
                               !.replay = Len(r.subticks),
                               !.sim.success_history = Append(@, <<success, same.sim.timer>>)]
        a == reset_agent_position(same.sim)
        b == Catch_regenerate_ball(same.sim)
    IN  IF r.error # "none"
        THEN [same EXCEPT !.network = r.network, !.rng = r.rng, !.error = r.error,
                          !.rule = rule, !.replay = Len(r.subticks)]
        ELSE IF a.error # "none" THEN [logged EXCEPT !.error = a.error]
        ELSE IF b.error # "none" THEN [logged EXCEPT !.sim.agent = a.paddle, !.error = b.error]
        ELSE [logged EXCEPT !.sim.agent = a.paddle, !.sim.ball = b.ball,
                            !.sim.translator_timer = 0 - 1]

\* Lines 130-131: the outward normal of the face of the agent the ball hit.
collided_edge_normal_vector(sim) ==
    rotate(get_edge_normal_vector(get_closest_point(sim.agent,
               translate_to_local(sim.agent, sim.ball.center))), sim.agent.orientation)

\* The branch the if / elif chains of lines 103-117 and 134-145 take.
Catch_matching_rule(sim) ==
    IF sim.ball.center.y <= BallRadius \/ PongHeight - sim.ball.center.y <= BallRadius
    THEN "wall"
    ELSE IF sim.ball.center.x <= BallRadius THEN "left"
    ELSE IF PongWidth - sim.ball.center.x <= BallRadius THEN "right"
    ELSE IF Rectangle_collides_with(sim.agent, sim.ball.center)
    THEN IF collided_edge_normal_vector(sim) = [x |-> 1, y |-> 0] THEN "front" ELSE "face"
    ELSE "none"

\* Catch.check_ball_collisions and Catch.resolve_collision_with_agent.
Catch_check_ball_collisions(sim, n, g) ==
    LET ball == sim.ball
        rule == Catch_matching_rule(sim)
        same == [sim |-> sim, network |-> n, rng |-> g, error |-> "none", rule |-> "none",
                 replay |-> 0]
    IN  IF rule = "wall"
        THEN LET r == Ball_set_speed(ball, reflection(ball.speed, [x |-> 0, y |-> 1]))
             IN  [same EXCEPT !.sim.ball = r.ball, !.error = r.error, !.rule = "wall"]
        ELSE IF rule = "left"
        THEN CHOOSE out \in {end_rally(same, r, FALSE, "left") : r \in {punish(n, g)}} : TRUE
        ELSE IF rule = "right"
        THEN [same EXCEPT !.error = "ValueError", !.rule = "right"]
        ELSE IF rule = "front"
        THEN CHOOSE out \in {end_rally(same, r, TRUE, "front") : r \in {reward(n, g)}} : TRUE
        ELSE IF rule = "face"
        THEN LET r == resolve_collision_with_paddle(ball, sim.agent)
             IN  [same EXCEPT !.sim.ball = r.ball, !.error = r.error, !.rule = "face"]
        ELSE same

\* Simulation.step for the elements of Catch, the ball then the agent.
Catch_Simulation_step(sim, n) ==
    LET moved == Ball_update(sim.ball, NoAcceleration)
        ball == moved.ball
        agent == Agent_update(sim.agent, n)
    IN  IF moved.error # "none"
        THEN [sim EXCEPT !.ball = ball, !.error = moved.error, !.stage = "update"]
        ELSE [sim EXCEPT !.ball = ball, !.agent = agent,
                         !.env_history = Append(@, <<ball.center, agent.center>>),
                         !.timer = @ + 1]

\* CatchSignalTranslator.generate_sensory_signal, size being the translator's
\* region_size.
Catch_generate_sensory_signal(timer, ball, size) ==
    LET slot == Min((ball.center.y * Len(TranslatorNames)) \div PongHeight,
                    Len(TranslatorNames) - 1)
    IN  IF TranslatorFires(timer, ball)
        THEN [signal |-> [k \in 1..Len(TranslatorNames) |->
                             [name |-> TranslatorNames[k],
                              state |-> Full(size, IF k - 1 = slot THEN TRIGGERED
                                                   ELSE RESTING)]],
              timer |-> 0]
        ELSE [signal |-> NoSignal, timer |-> timer + 1]

\* Catch.step after check_ball_collisions (hit): lines 96-98.  updated holds
\* the elements as Simulation.step left them, dispatched what
\* check_ball_collisions made of the simulation and sensory_signal what the
\* translator returned.
Catch_AfterCollisions(updated, n, g, hit) ==
    LET seen == [hit EXCEPT !.sim.updated = [ball |-> updated.ball, agent |-> updated.agent,
                                             success_history |-> updated.success_history,
                                             translator_timer |-> updated.translator_timer,
                                             network |-> n, rng |-> g],
                            !.sim.dispatched = [ball |-> hit.sim.ball, agent |-> hit.sim.agent,
                                                success_history |-> hit.sim.success_history,
                                                translator_timer |-> hit.sim.translator_timer,
                                                network |-> hit.network, rng |-> hit.rng]]
    IN  IF hit.error # "none"
        THEN [sim |-> [seen.sim EXCEPT !.rule = hit.rule, !.replay = hit.replay,
                                       !.error = hit.error, !.stage = "collisions"],
              network |-> hit.network, rng |-> hit.rng]
        ELSE CHOOSE out \in
                 {Propagation([seen EXCEPT !.sim.sensory_signal = sensed.signal], sensed,
                              propagate_signal(hit.network, hit.rng, sensed.signal)) :
                     sensed \in {Catch_generate_sensory_signal(hit.sim.translator_timer,
                                     hit.sim.ball, hit.sim.region_size)}} :
                 TRUE

\* The shape objects the first entry of env_history refers to.
Catch_shapes(sim) == <<Circle(sim.ball), Rectangle(sim.agent)>>

\* Catch.step.
Catch_step(sim, n, g) ==
    CHOOSE out \in
        {[moved EXCEPT !.sim.env_history[1] = Catch_shapes(moved.sim)] :
            moved \in
                {IF updated.error # "none"
                 THEN [sim |-> updated, network |-> n, rng |-> g]
                 ELSE Catch_AfterCollisions(updated, n, g,
                                            Catch_check_ball_collisions(updated, n, g)) :
                    updated \in {Catch_Simulation_step(sim, n)}}} : TRUE

\* The network of a Catch agent: two sensory regions of the translator's
\* region size, two motor regions.
CatchRegions(size) == <<[name |-> "s0", size |-> size, internal |-> FALSE],
                        [name |-> "s1", size |-> size, internal |-> FALSE],
                        [name |-> "e0", size |-> 1, internal |-> TRUE],
                        [name |-> "e1", size |-> 1, internal |-> TRUE]>>

CatchConnectome == {<<"s0", "e0">>, <<"s1", "e1">>, <<"e0", "e1">>, <<"e1", "e0">>}

\* Catch.__init__ and Simulation.__init__: the ball starts at its initial
\* position with the reference speed, the agent where it was built.
NewCatch(position, speed, agent_y, size) ==
    LET ball == [center |-> position, speed |-> speed]
        agent == [center |-> [x |-> AgentX, y |-> agent_y],
                  speed |-> [x |-> 0, y |-> 0], orientation |-> 0]
    IN  [built |-> TRUE, ball |-> ball, agent |-> agent,
         env_history |-> <<<<Circle(ball), Rectangle(agent)>>,
                           <<ball.center, agent.center>>>>,
         timer |-> 0, success_history |-> <<>>, translator_timer |-> 0 - 1,
         error |-> "none", rule |-> "none", replay |-> 0, stage |-> "init",
         sensory_signal |-> NoSignal, region_size |-> size, ball_initial_position |-> position,
         ball_reference_speed |-> speed, agent_initial_position |-> agent.center,
         updated |-> [ball |-> ball, agent |-> agent, success_history |-> <<>>,
                      translator_timer |-> 0 - 1,
                      network |-> NoNetwork, rng |-> [mock |-> FALSE, s |-> 0]],
         dispatched |-> [ball |-> ball, agent |-> agent, success_history |-> <<>>,
                         translator_timer |-> 0 - 1,
                         network |-> NoNetwork, rng |-> [mock |-> FALSE, s |-> 0]]]

CatchPositions == {[x |-> 6, y |-> 3], [x |-> 6, y |-> 6], [x |-> 7, y |-> 6],
                   [x |-> 6, y |-> 2], [x |-> PongWidth, y |-> 4]}

CatchSpeeds == {[x |-> 0 - 1, y |-> 1], [x |-> 0 - 1, y |-> 0 - 1], [x |-> 0 - 2, y |-> 0],
                [x |-> 0 - 1, y |-> 0 - 3]}

AgentPositions == {PaddleMinY, PaddleMinY + 1}

RegionSizes == {1, 2}

\* ----------------------------------------------------------------- actions
Outcome(op, arg, r) ==
    [op |-> op, arg |-> arg, pre |-> network, pre_rng |-> rng, error |-> r.error,
     faulty_regions |-> r.faulty_regions, draws |-> r.draws, p_fire |-> r.p_fire,
     subticks |-> r.subticks, result |-> r.result]

Plain == [error |-> "none", faulty_regions |-> <<>>, draws |-> <<>>, p_fire |-> <<>>,
          subticks |-> <<>>, result |-> <<>>]

Init ==
    /\ \E c \in {"small", "wide"}, seed \in 0..MaxSeed :
          /\ network = IF c = "small" THEN NewNetwork(SmallRegions, SmallConformation)
                       ELSE NewNetwork(WideRegions, WideConformation)
          /\ rng = [mock |-> FALSE, s |-> seed]
    /\ trace = <<>>
    /\ last = Outcome("init", <<>>, Plain)
    /\ pong = NoSimulation
    /\ catch = NoSimulation

\* The network and the generator of src/test/test_network.py, as built by
\* the first statement of setUp.
InitTest ==
    /\ network = NewNetwork(TestRegions, TestConformation)
    /\ rng = [mock |-> TRUE, s |-> 0]
    /\ trace = <<>>
    /\ last = Outcome("init", <<>>, Plain)
    /\ pong = NoSimulation
    /\ catch = NoSimulation

Called(op, arg) ==
    /\ Len(trace) < (IF rng.mock THEN MaxScript ELSE MaxCalls)
    /\ UNCHANGED <<pong, catch>>
    /\ trace' = Append(trace, [op |-> op, arg |-> arg])

\* The sensory signals tried: for the first external region E and the first
\* internal region I of the network.
FirstRegion(internal) ==
    CHOOSE k \in 1..Len(network.regions) :
        /\ network.regions[k].internal = internal
        /\ \A h \in 1..(k - 1) : network.regions[h].internal # internal

Entry(k, v) == [name |-> network.regions[k].name, state |-> Full(network.regions[k].size, v)]

Short(k) == [name |-> network.regions[k].name, state |-> Full(network.regions[k].size + 1, TRIGGERED)]

Unknown(name) == [name |-> name, state |-> <<RESTING>>]

Signals ==
    LET E == FirstRegion(FALSE)
        I == FirstRegion(TRUE)
    IN  { NoSignal,
          <<>>,
          <<Entry(E, TRIGGERED)>>,
          <<Entry(E, RESTING)>>,
          <<Entry(E, 7)>>,
          <<Entry(I, TRIGGERED)>>,
          <<Short(E)>>,
          <<Unknown("unknown region")>>,
          <<Entry(E, TRIGGERED), Unknown("unknown region")>>,
          <<Unknown("unknown region"), Unknown("ghost")>>,
          <<Unknown("unknown region"), Short(E)>>,
          <<Entry(E, TRIGGERED), Short(I)>> }

PropagateSignal ==
    \E sig \in Signals :
        LET r == propagate_signal(network, rng, sig)
        IN  /\ Called("propagate_signal", sig)
            /\ network' = r.network
            /\ rng' = r.rng
            /\ last' = Outcome("propagate_signal", sig,
                               [r EXCEPT !.error = r.error] @@ [subticks |-> <<>>, result |-> <<>>])

States ==
    IF Len(network.state) = 9
    THEN {test_network_state, <<10, 10, 5, 0, 10, 0, 0, 5, -10>>, <<0, 0, 0>>}
    ELSE IF Len(network.state) = 3
    THEN {<<10, 0, 10>>, <<0, 10, 5>>, <<5, -10, 0>>, <<0, 0>>}
    ELSE {<<10, 0, 10, 5>>, <<0, 10, 0, 10>>, <<-10, 5, 5, 0>>, <<0, 0>>}

SetState ==
    \E state \in States :
        LET r == set_state(network, state)
        IN  /\ Called("set_state", state)
            /\ network' = r.network
            /\ UNCHANGED rng
            /\ last' = Outcome("set_state", state, [Plain EXCEPT !.error = r.error])

OptimizeConnections ==
    /\ Called("optimize_connections", <<>>)
    /\ network' = optimize_connections(network)
    /\ UNCHANGED rng
    /\ last' = Outcome("optimize_connections", <<>>, Plain)

Reward ==
    LET r == reward(network, rng)
    IN  /\ Called("reward", <<>>)
        /\ network' = r.network
        /\ rng' = r.rng
        /\ last' = Outcome("reward", <<>>, r @@ [p_fire |-> <<>>, result |-> <<>>])

Punish ==
    LET r == punish(network, rng)
    IN  /\ Called("punish", <<>>)
        /\ network' = r.network
        /\ rng' = r.rng
        /\ last' = Outcome("punish", <<>>, r @@ [p_fire |-> <<>>, result |-> <<>>])

RemoveNeurons ==
    \E k \in 1..Len(network.regions), number \in 0..2 :
        \E indices \in SUBSET (1..network.regions[k].size) :
            /\ Cardinality(indices) = IF number < network.regions[k].size THEN number ELSE 0
            /\ rng.mock /\ number < network.regions[k].size =>
                   indices = (network.regions[k].size - number + 1)..network.regions[k].size
            /\ LET r == remove_neurons(network, number, network.regions[k].name, indices)
               IN  /\ Called("remove_neurons", <<k, number>>)
                   /\ network' = r.network
                   /\ rng' = IF r.error = "none" THEN Advance(rng) ELSE rng
                   /\ last' = Outcome("remove_neurons", <<k, number>>,
                                      [Plain EXCEPT !.error = r.error])

AccessedRegions ==
    LET a == network.regions[1].name
        b == network.regions[2].name
    IN  {<<a, b>>, <<b>>, <<a, "Unknown">>, <<"Unknown", "random">>, <<b, a, a>>}

GetMotorSignal ==
    \E names \in AccessedRegions :
        LET r == get_motor_signal(network, names)
        IN  /\ Called("get_motor_signal", names)
            /\ UNCHANGED <<network, rng>>
            /\ last' = Outcome("get_motor_signal", names,
                               [Plain EXCEPT !.error = r.error, !.result = r.signal])

NewController ==
    \E names \in AccessedRegions :
        /\ Called("ConstantSpeedNetworkController", names)
        /\ UNCHANGED <<network, rng>>
        /\ last' = Outcome("ConstantSpeedNetworkController", names,
                           [Plain EXCEPT !.error =
                                ConstantSpeedNetworkController_init(network, names)])

ComputeFreeEnergy ==
    LET r == compute_free_energy(network)
    IN  /\ Called("compute_free_energy", <<>>)
        /\ network' = r.network
        /\ UNCHANGED rng
        /\ last' = Outcome("compute_free_energy", <<>>, [Plain EXCEPT !.result = <<r.value>>])

Next ==
    \/ PropagateSignal
    \/ SetState
    \/ OptimizeConnections
    \/ Reward
    \/ Punish
    \/ RemoveNeurons
    \/ GetMotorSignal
    \/ NewController
    \/ ComputeFreeEnergy

Spec == Init /\ [][Next]_vars

\* The calls made by TestNetwork.test_propagate_signal and setUp.
NextTest ==
    \/ SetState
    \/ PropagateSignal

SpecTest == InitTest /\ [][NextTest]_vars

\* The calls made by TestNetwork.test_get_motor_signal and setUp.
NextMotor ==
    \/ SetState
    \/ PropagateSignal
    \/ GetMotorSignal

SpecMotor == InitTest /\ [][NextMotor]_vars

\* Networks whose matrix lies in [0, 1] at construction, under the calls that
\* run optimize_connections and those interleaved with them.
InitOptimize ==
    /\ \E conf \in {SmallConformation, EdgeConformation}, seed \in 0..MaxSeed :
          /\ network = NewNetwork(SmallRegions, conf)
          /\ rng = [mock |-> FALSE, s |-> seed]
    /\ trace = <<>>
    /\ last = Outcome("init", <<>>, Plain)
    /\ pong = NoSimulation
    /\ catch = NoSimulation

NextOptimize ==
    \/ OptimizeConnections
    \/ PropagateSignal
    \/ Reward
    \/ Punish

SpecOptimize == InitOptimize /\ [][NextOptimize]_vars

\* optimize_connections called on a network whose last two snapshots are any
\* two states (the states two propagate_signal calls clamping every region
\* leave behind).
NeuronStates == {RESTING, recovery_state_energy_ratio, TRIGGERED, DEAD}

InitSynapse ==
    /\ \E conf \in {SmallConformation, EdgeConformation},
          previous, current \in [1..2 -> NeuronStates], sensory \in {RESTING, TRIGGERED} :
          network = [NewNetwork(SmallRegions, conf) EXCEPT
                        !.region_state = <<<<sensory>>, current>>,
                        !.state_history = <<<<sensory>> \o previous, <<sensory>> \o current>>]
    /\ \E seed \in 0..MaxSeed : rng = [mock |-> FALSE, s |-> seed]
    /\ trace = <<>>
    /\ last = Outcome("init", <<>>, Plain)
    /\ pong = NoSimulation
    /\ catch = NoSimulation

SpecSynapse == InitSynapse /\ [][OptimizeConnections]_vars

\* One ball built with any speed and acceleration, then updated once.
Components == (0 - MaxComponent)..MaxComponent

InitBall ==
    /\ network = NoNetwork
    /\ rng = [mock |-> FALSE, s |-> 0]
    /\ trace = <<>>
    /\ pong = NoSimulation
    /\ catch = NoSimulation
    /\ \E vx, vy \in Components, ax, ay \in {0 - 1, 0, 1} :
           last = [op |-> "Ball", error |-> "none",
                   ball |-> [center |-> [x |-> 0, y |-> 0], speed |-> [x |-> vx, y |-> vy]],
                   made |-> [center |-> [x |-> 0, y |-> 0], speed |-> [x |-> vx, y |-> vy]],
                   updated |-> [center |-> [x |-> 0, y |-> 0], speed |-> [x |-> vx, y |-> vy]],
                   acceleration |-> [x |-> ax, y |-> ay]]

UpdateBall ==
    /\ last.op = "Ball"
    /\ \E r \in {Ball_update(last.ball, last.acceleration)} :
           last' = [last EXCEPT !.op = "update", !.ball = r.ball, !.error = r.error]
    /\ UNCHANGED <<network, rng, trace, pong, catch>>

\* Ball.set_state(speed=v) on the ball as built.
SetSpeed ==
    /\ last.op = "Ball"
    /\ \E vx, vy \in Components :
          \E r \in {Ball_set_speed(last.ball, [x |-> vx, y |-> vy])} :
              last' = [last EXCEPT !.op = "set_state", !.ball = r.ball, !.error = r.error,
                                   !.acceleration = [x |-> vx, y |-> vy]]
    /\ UNCHANGED <<network, rng, trace, pong, catch>>

\* The top / bottom wall branch of check_ball_collisions on the ball the
\* update of the same step has left.
Reflect ==
    /\ last.op = "update"
    /\ last.error = "none"
    /\ \E r \in {Ball_set_speed(last.ball, reflection(last.ball.speed, [x |-> 0, y |-> 1]))} :
           last' = [last EXCEPT !.op = "reflection", !.updated = last.ball,
                                !.ball = r.ball, !.error = r.error]
    /\ UNCHANGED <<network, rng, trace, pong, catch>>

NextBall == UpdateBall \/ SetSpeed \/ Reflect

SpecBall == InitBall /\ [][NextBall]_vars

\* ------------------------------------------------------- graph generation
\* A conformation is a sequence of rows (one per target neuron) of entries in
\* Scale units. A row mean is kept as the pair (sum of the entries that are
\* not the sentinel, number of them), so that no mean is rounded.
RECURSIVE RowSum(_, _)
RowSum(row, k) ==
    IF k = 0 THEN 0 ELSE RowSum(row, k - 1) + (IF row[k] = NaN THEN 0 ELSE row[k])

RowCount(row) == Cardinality({j \in DOMAIN row : row[j] # NaN})

\* np.any(np.abs(current_average - transmission_average) >= tolerance); the
\* mean of a row of sentinels only is nan, and no comparison with nan holds.
OffTarget(conformation, transmission_average, tolerance, sums) ==
    \E i \in DOMAIN conformation :
        LET count == RowCount(conformation[i])
        IN  /\ count > 0
            /\ Abs(sums[i] - transmission_average * count) >= tolerance * count

\* np.clip((transmission_average / current_average) * conformation, 0.0, 1.0)
clipped_conformation(conformation, transmission_average, sums) ==
    [i \in DOMAIN conformation |->
        [j \in DOMAIN conformation[i] |->
            IF conformation[i][j] = NaN THEN NaN
            ELSE Min((transmission_average * RowCount(conformation[i]) * conformation[i][j])
                         \div sums[i], Scale)]]

\* The while loop of graph_generation_fn. clipped is <<>> as long as the name
\* clipped_conformation is unbound; seen holds the averages the loop has
\* already been entered with: the loop body depends on nothing else, so an
\* average met twice is met for ever.
RECURSIVE Rescaling(_, _, _, _, _)
Rescaling(conformation, transmission_average, tolerance, clipped, seen) ==
    LET current == IF clipped = <<>> THEN conformation ELSE clipped
        sums == [i \in DOMAIN conformation |-> RowSum(current[i], Len(current[i]))]
    IN  IF ~OffTarget(conformation, transmission_average, tolerance, sums)
        THEN IF clipped = <<>>
             THEN [error |-> "UnboundLocalError", conformation |-> <<>>]
             ELSE [error |-> "none", conformation |-> clipped]
        ELSE IF sums \in seen
        THEN [error |-> "never returns", conformation |-> <<>>]
        ELSE Rescaling(conformation, transmission_average, tolerance,
                       clipped_conformation(conformation, transmission_average, sums),
                       seen \cup {sums})

\* uniform is the matrix generator.uniform(size=(target, source)) returns.
fixed_average_transmission(transmission_average, tolerance, target, source, uniform) ==
    Rescaling(uniform, transmission_average, tolerance, <<>>, {})

self_referring_fixed_average_transmission(transmission_average, tolerance, target, source, uniform) ==
    IF target # source
    THEN [error |-> "ValueError", conformation |-> <<>>]
    ELSE Rescaling([i \in 1..target |-> [j \in 1..source |-> IF i = j THEN NaN ELSE uniform[i][j]]],
                   transmission_average, tolerance, <<>>, {})

\* One generation function built with any mean and tolerance, called once with
\* any sizes and any uniform draw (0.1, 0.5 or 0.9 for each entry).
InitGraph ==
    /\ network = NoNetwork
    /\ rng = [mock |-> FALSE, s |-> 0]
    /\ trace = <<>>
    /\ pong = NoSimulation
    /\ catch = NoSimulation
    /\ \E fn \in {"fixed_average_transmission", "self_referring_fixed_average_transmission"},
          transmission_average \in {4000, 5000, 6600, 9000}, tolerance \in {1, 500},
          target, source \in 1..MaxSize :
          \E uniform \in [1..target -> [1..source -> {1000, 5000, 9000}]] :
              last = [op |-> fn, fn |-> fn, error |-> "none", transmission_average |-> transmission_average,
                      tolerance |-> tolerance, target |-> target, source |-> source,
                      uniform |-> uniform, conformation |-> <<>>]

GenerateGraph ==
    /\ last.op \in {"fixed_average_transmission", "self_referring_fixed_average_transmission"}
    /\ \E r \in {IF last.op = "fixed_average_transmission"
                 THEN fixed_average_transmission(last.transmission_average, last.tolerance,
                                                 last.target, last.source, last.uniform)
                 ELSE self_referring_fixed_average_transmission(last.transmission_average, last.tolerance,
                                                                last.target, last.source, last.uniform)} :
           last' = [last EXCEPT !.op = "graph_generation_fn", !.fn = last.op,
                                !.error = r.error, !.conformation = r.conformation]
    /\ UNCHANGED <<network, rng, trace, pong, catch>>

NextGraph == GenerateGraph

SpecGraph == InitGraph /\ [][NextGraph]_vars

\* One Pong simulation from its construction.
InitPong ==
    /\ network = NewNetwork(PongRegions, PongConformation)
    /\ \E seed \in 0..MaxSeed : rng = [mock |-> FALSE, s |-> seed]
    /\ \E center \in BallCenters, speed \in BallSpeeds : pong = NewPong(center, speed)
    /\ catch = NoSimulation
    /\ trace = <<>>
    /\ last = Outcome("init", <<>>, Plain)

Step ==
    /\ pong.timer < MaxTicks
    /\ pong.error = "none"
    /\ \E r \in {Pong_step(pong, network, rng)} :
           /\ pong' = r.sim
           /\ network' = r.network
           /\ rng' = r.rng
    /\ UNCHANGED <<trace, last, catch>>

NextPong == Step

SpecPong == InitPong /\ [][NextPong]_vars

\* The construction of a network from the caller's regions and connectome.
NameSet == {"a", "b", "ghost"}

RegionLists ==
    UNION {[1..len -> {[name |-> nm, size |-> 1, internal |-> int] :
                          nm \in {"a", "b"}, int \in BOOLEAN}] : len \in 0..MaxRegions}

Connectomes == {c \in SUBSET (NameSet \X NameSet) : Cardinality(c) <= MaxEdges}

InitConstruct ==
    /\ network = NoNetwork
    /\ rng = [mock |-> FALSE, s |-> 0]
    /\ trace = <<>>
    /\ pong = NoSimulation
    /\ catch = NoSimulation
    /\ \E regs \in RegionLists, connectome \in Connectomes :
           last = [op |-> "arguments", regions |-> regs, connectome |-> connectome,
                   error |-> "none"]

Construct ==
    /\ last.op = "arguments"
    /\ \E r \in {Network_init(last.regions, last.connectome)} :
           /\ network' = r.network
           /\ last' = [last EXCEPT !.op = "Network", !.error = r.error]
    /\ UNCHANGED <<rng, trace, pong, catch>>

NextConstruct == Construct

SpecConstruct == InitConstruct /\ [][NextConstruct]_vars

\* One Catch simulation from its construction.
InitCatch ==
    /\ \E size \in RegionSizes :
          /\ network = NewNetwork(CatchRegions(size),
                                  BuildConformation(CatchRegions(size), CatchConnectome))
          /\ \E position \in CatchPositions, speed \in CatchSpeeds, y \in AgentPositions :
                catch = NewCatch(position, speed, y, size)
    /\ \E seed \in 0..MaxSeed : rng = [mock |-> FALSE, s |-> seed]
    /\ trace = <<>>
    /\ last = Outcome("init", <<>>, Plain)
    /\ pong = NoSimulation

CatchStep ==
    /\ catch.timer < MaxTicks
    /\ catch.error = "none"
    /\ \E r \in {Catch_step(catch, network, rng)} :
           /\ catch' = r.sim
           /\ network' = r.network
           /\ rng' = r.rng
    /\ UNCHANGED <<trace, last, pong>>

NextCatch == CatchStep

SpecCatch == InitCatch /\ [][NextCatch]_vars

\* ---------------------------------------------------- two independent runs
\* LinearRandomWalker.update (one draw of generator.choice among 1, 0, -1 with
\* equal probabilities) followed by the paddle's own update.
LinearRandomWalker_update(paddle, g) ==
    LET walker_choice == IF 3 * Uniform(g) < Scale THEN 1
                         ELSE IF 3 * Uniform(g) < 2 * Scale THEN 0 ELSE 0 - 1
        controlled == [paddle EXCEPT !.speed = [x |-> 0, y |-> walker_choice * AgentSpeed]]
    IN  [paddle |-> adjust_position([controlled EXCEPT !.center = Add(@, controlled.speed)]),
         rng |-> Advance(g)]

\* Simulation.step of the Pong of init_random_pong_simulation, whose paddle
\* is driven by the random walker set on the simulation's generator.
RandomPong_Simulation_step(sim, n, g) ==
    LET moved == Ball_update(sim.ball, NoAcceleration)
        walked == LinearRandomWalker_update(sim.paddle, g)
        agent == Agent_update(sim.agent, n)
    IN  IF moved.error # "none"
        THEN [sim |-> [sim EXCEPT !.ball = moved.ball, !.error = moved.error, !.stage = "update"],
              rng |-> g]
        ELSE [sim |-> [sim EXCEPT !.ball = moved.ball, !.paddle = walked.paddle, !.agent = agent,
                                  !.env_history = Append(@, <<moved.ball.center, walked.paddle.center,
                                                              agent.center>>),
                                  !.timer = @ + 1],
              rng |-> walked.rng]

RandomPong_step(sim, n, g) ==
    CHOOSE out \in
        {[moved EXCEPT !.sim.env_history[1] = Pong_shapes(moved.sim)] :
            moved \in {IF updated.sim.error # "none"
                        THEN [sim |-> updated.sim, network |-> n, rng |-> updated.rng]
                        ELSE AfterCollisions(check_ball_collisions(updated.sim, n, updated.rng)) :
                          updated \in {RandomPong_Simulation_step(sim, n, g)}}} : TRUE

\* Two simulations alike but for the seed, which each takes on its own.
InitTwin_unseeded ==
    /\ network = NewNetwork(PongRegions, PongConformation)
    /\ \E seed \in 0..MaxSeed : rng = [mock |-> FALSE, s |-> seed]
    /\ \E center \in BallCenters, speed \in BallSpeeds : pong = NewPong(center, speed)
    /\ \E seed \in 0..MaxSeed :
           last = [op |-> "twin", sim |-> pong, network |-> network,
                   rng |-> [mock |-> FALSE, s |-> seed]]
    /\ catch = NoSimulation
    /\ trace = <<>>

\* Two simulations built apart with the same seed, the same connection matrix
\* and the same configuration: the first in pong, network and rng, the second
\* in last.  Each is stepped on its own, in any interleaving.
InitTwin ==
    /\ network = NewNetwork(PongRegions, PongConformation)
    /\ \E seed \in 0..MaxSeed : rng = [mock |-> FALSE, s |-> seed]
    /\ \E center \in BallCenters, speed \in BallSpeeds : pong = NewPong(center, speed)
    /\ last = [op |-> "twin", sim |-> pong, network |-> network, rng |-> rng]
    /\ catch = NoSimulation
    /\ trace = <<>>

StepFirst ==
    /\ pong.timer < MaxTicks
    /\ pong.error = "none"
    /\ \E r \in {RandomPong_step(pong, network, rng)} :
           /\ pong' = r.sim
           /\ network' = r.network
           /\ rng' = r.rng
    /\ UNCHANGED <<trace, last, catch>>

StepSecond ==
    /\ last.sim.timer < MaxTicks
    /\ last.sim.error = "none"
    /\ \E r \in {RandomPong_step(last.sim, last.network, last.rng)} :
           last' = [last EXCEPT !.sim = r.sim, !.network = r.network, !.rng = r.rng]
    /\ UNCHANGED <<trace, network, rng, pong, catch>>

NextTwin == StepFirst \/ StepSecond

SpecTwin == InitTwin /\ [][NextTwin]_vars

\* ================================================================== claims
\* The state a propagate_signal call works on once its signal is applied.
ClampedNetwork(n, sig) ==
    ApplySensorySignal(n, IF sig = NoSignal THEN <<>> ELSE sig, 1, <<>>).network

\* The firing probabilities of section 4.2: from the full state after clamping.
SpecProbabilities(n, sig) ==
    ProbabilityVector(n.conformation, get_state(ClampedNetwork(n, sig)))

Propagated == last.op = "propagate_signal" /\ last.p_fire # <<>>

\* C1: every propagate_signal call computes the firing probabilities from
\* the neurons that are TRIGGERED in the concatenation of the regions'
\* states as they stand in that call after clamping.
C1_ProbabilitiesFromCurrentState ==
    Propagated => last.p_fire = SpecProbabilities(last.pre, last.arg)

\* C2: scenarios S2 then S3 of the tests: from test_network_state one
\* propagate_signal gives [0.5,0,0.5,0,1,0,0,0.5,0.5] with a full history,
\* and a following propagate_signal clamping region1 to [1,1] gives
\* [1,1,0,0,0.5,0,0,0,0].
S2Done ==
    /\ Len(trace) >= 2
    /\ trace[1].op = "set_state" /\ trace[1].arg = test_network_state
    /\ trace[2].op = "propagate_signal" /\ trace[2].arg = NoSignal

S3Done ==
    /\ S2Done
    /\ Len(trace) = 3
    /\ trace[3].op = "propagate_signal"
    /\ trace[3].arg = <<[name |-> "region1", state |-> <<TRIGGERED, TRIGGERED>>]>>

C2_ScenarioS2S3 ==
    /\ S2Done /\ Len(trace) = 2 =>
          /\ get_state(network) = <<5, 0, 5, 0, 10, 0, 0, 5, 5>>
          /\ Len(network.state_history) = state_history_size
    /\ S3Done => get_state(network) = <<10, 10, 0, 0, 5, 0, 0, 0, 0>>

\* The uniform draw the call made for the neuron i (0 when it made none).
DrawOf(i) ==
    IF \E d \in 1..Len(last.draws) : last.draws[d].neuron = i
    THEN last.draws[CHOOSE d \in 1..Len(last.draws) : last.draws[d].neuron = i].u
    ELSE 0

Unnamed(k) == network.regions[k].name \notin SignalNames(last.arg)

\* C3: in propagate_signal the neurons of the regions the signal does not
\* name follow the table: TRIGGERED -> RECOVERING; RECOVERING stays iff
\* u <= p_fire, else RESTING; RESTING -> TRIGGERED iff u <= p_fire, else
\* stays; DEAD stays DEAD; p_fire being the firing probability of section 4.2.
C3_TransitionTable ==
    Propagated /\ last.error = "none" =>
        \A k \in 1..Len(network.regions) : Unnamed(k) =>
            \A a \in 1..network.regions[k].size :
                LET i == get_neurons_index(network.regions, k)[a]
                    old == last.pre.region_state[k][a]
                    new == network.region_state[k][a]
                    fire == DrawOf(i) <= SpecProbabilities(last.pre, last.arg)[i]
                IN  /\ old = TRIGGERED => new = recovery_state_energy_ratio
                    /\ old = recovery_state_energy_ratio =>
                           new = IF fire THEN recovery_state_energy_ratio ELSE RESTING
                    /\ old = RESTING => new = IF fire THEN TRIGGERED ELSE RESTING
                    /\ old = DEAD => new = DEAD

\* C4: reward runs exactly reward_fn_period sub-ticks, the sensory regions
\* being clamped to all-ones (one entry per neuron) on the sub-ticks
\* divisible by reward_fn_signal_period and to all-zeros on the others, and
\* completes for sensory regions of every size.
SpecRewardSignal(n, i) ==
    LET names == sensory_regions_names(n)
    IN  [k \in 1..Len(names) |->
            [name |-> names[k],
             state |-> Full(n.regions[RegionIndex(n.regions, names[k])].size,
                            IF i % reward_fn_signal_period = 0 THEN TRIGGERED ELSE RESTING)]]

C4_RewardReplay ==
    last.op = "reward" =>
        /\ last.error = "none"
        /\ Len(last.subticks) = reward_fn_period
        /\ \A i \in 1..Len(last.subticks) : last.subticks[i] = SpecRewardSignal(last.pre, i - 1)

\* C5: a Pong step whose dispatch reaches the agent-paddle rule runs the
\* reward replay, logs a success at the current tick and bounces the ball; a
\* step that reaches the right-wall rule runs the reward replay, regenerates
\* the ball and resets the translator timer; both complete normally and go
\* on to propagate, optimize and compute the free energy.
C5_RewardingStepsComplete ==
    pong.built /\ pong.rule \in {"agent", "right"} =>
        /\ pong.error = "none"
        /\ pong.stage = "done"
        /\ pong.replay = reward_fn_period
        /\ pong.rule = "agent" =>
              /\ pong.success_rate_history # <<>>
              /\ pong.success_rate_history[Len(pong.success_rate_history)] = <<TRUE, pong.timer>>
        /\ pong.rule = "right" => pong.translator_timer <= 0

\* C6: propagate_signal never replaces the state of an INTERNAL region by
\* values of the caller's sensory signal.
C6_OnlyExternalClamped ==
    last.op = "propagate_signal" =>
        \A k \in 1..Len(network.regions) : network.regions[k].internal =>
            \A j \in 1..Len(last.arg) : last.arg[j].name = network.regions[k].name =>
                ~(/\ network.region_state[k] = last.arg[j].state
                  /\ last.pre.region_state[k] # last.arg[j].state)

\* C7: a propagate_signal call that fails on its sensory signal (unknown
\* region name or state vector of the wrong length) leaves the network as
\* it was before the call.
SignalRejected ==
    last.op = "propagate_signal" /\ last.error # "none" /\ last.p_fire = <<>>

C7_FailedSignalLeavesNetwork == SignalRejected => network = last.pre /\ rng = last.pre_rng

\* C8: a sensory signal holding names that are no regions of the network
\* fails with NetworkCommunicationError whose faulty_regions holds every
\* such name, and a state vector of the wrong length fails with
\* NetworkCommunicationError.
UnknownNames(n, sig) ==
    {sig[j].name : j \in {h \in 1..Len(sig) : RegionIndex(n.regions, sig[h].name) = 0}}

Mismatched(n, sig) ==
    \E j \in 1..Len(sig) :
        /\ RegionIndex(n.regions, sig[j].name) # 0
        /\ Len(sig[j].state) # n.regions[RegionIndex(n.regions, sig[j].name)].size

Given(sig) == IF sig = NoSignal THEN <<>> ELSE sig

C8_AllFaultyNamesReported ==
    last.op = "propagate_signal" =>
        /\ UnknownNames(last.pre, Given(last.arg)) # {} =>
              /\ last.error = "NetworkCommunicationError"
              /\ \A name \in UnknownNames(last.pre, Given(last.arg)) :
                    \E f \in 1..Len(last.faulty_regions) : last.faulty_regions[f] = name
        /\ Mismatched(last.pre, Given(last.arg)) => last.error = "NetworkCommunicationError"

\* C9: get_motor_signal with a name that is no region of the network fails
\* with NetworkCommunicationError, and the construction of a
\* ConstantSpeedNetworkController fails with ControllerInitializationError
\* when a motor region does not exist or there are not exactly two of them.
HasUnknown(names) == \E a \in 1..Len(names) : RegionIndex(network.regions, names[a]) = 0

C9_MotorRegionErrors ==
    /\ last.op = "get_motor_signal" /\ HasUnknown(last.arg) =>
          last.error = "NetworkCommunicationError"
    /\ last.op = "ConstantSpeedNetworkController" /\ (HasUnknown(last.arg) \/ Len(last.arg) # 2) =>
          last.error = "ControllerInitializationError"

\* C10: a DEAD neuron stays DEAD under propagate_signal, reward, punish and
\* optimize_connections, and propagate_signal draws no uniform for it.
C10_DeadStaysDead ==
    last.op \in {"propagate_signal", "reward", "punish", "optimize_connections"} =>
        /\ \A i \in 1..Len(network.state) :
              get_state(last.pre)[i] = DEAD => get_state(network)[i] = DEAD
        /\ last.op = "propagate_signal" =>
              \A d \in 1..Len(last.draws) :
                  get_state(ClampedNetwork(last.pre, last.arg))[last.draws[d].neuron] # DEAD

\* The positions of the region k that hold DEAD in the network n.
DeadIn(n, k) == {a \in 1..n.regions[k].size : n.region_state[k][a] = DEAD}

Removed == last.op = "remove_neurons" /\ last.error = "none"

\* Every neuron outside the positions of region k that died in the call has
\* the state it had before the call.
OthersUnchanged(k) ==
    \A j \in 1..Len(network.regions) : \A a \in 1..network.regions[j].size :
        (j # k \/ a \notin DeadIn(network, k) \ DeadIn(last.pre, k)) =>
            network.region_state[j][a] = last.pre.region_state[j][a]

\* C11 as stated: after remove_neurons(k, R, rng) exactly k neurons of R
\* are DEAD and every other neuron has the state it had before the call.
C11_ExactlyKDead ==
    Removed => /\ Cardinality(DeadIn(network, last.arg[1])) = last.arg[2]
               /\ OthersUnchanged(last.arg[1])

\* C11 amended: after remove_neurons(k, R, rng) the k positions drawn in R
\* are DEAD, the neurons of R that were DEAD before still are, so that at
\* least k and at most k more than before are DEAD, exactly k when none was
\* DEAD before; every other neuron has the state it had before the call.
C11_KPositionsDead ==
    Removed =>
        LET before == DeadIn(last.pre, last.arg[1])
            after == DeadIn(network, last.arg[1])
        IN  /\ before \subseteq after
            /\ Cardinality(after) >= last.arg[2]
            /\ Cardinality(after \ before) <= last.arg[2]
            /\ before = {} => Cardinality(after) = last.arg[2]
            /\ OthersUnchanged(last.arg[1])

\* A call that removes one neuron from a region where one was DEAD already.
C11_Witness ==
    /\ Removed
    /\ last.arg[2] = 1
    /\ Cardinality(DeadIn(last.pre, last.arg[1])) = 1
    /\ Cardinality(DeadIn(network, last.arg[1])) = 2

\* The number of internal neurons of n in the state v.
InternalCount(n, v) ==
    Cardinality({i \in 1..Len(get_internal_state(n)) : get_internal_state(n)[i] = v})

\* The entropy term S (k = 1): the binary entropies of the firing
\* probabilities of the RESTING and RECOVERING neurons.
GlobalEntropy(n) ==
    LET state == get_state(n)
        p == ProbabilityVector(n.conformation, state)
    IN  SumSeq([i \in 1..Len(state) |->
                   IF state[i] \in {RESTING, recovery_state_energy_ratio}
                   THEN BinaryEntropy(p[i]) ELSE 0], Len(state))

FreeEnergyComputed == last.op = "compute_free_energy"

\* What compute_free_energy may change: the free-energy history only, by
\* appending the returned value.
OnlyHistoryAppended ==
    /\ network.free_energy_history = Append(last.pre.free_energy_history, last.result[1])
    /\ network = [last.pre EXCEPT !.free_energy_history = network.free_energy_history]

\* C12 as stated: compute_free_energy returns E - S with E minus the number
\* of TRIGGERED internal neurons, appends the returned value to the
\* free-energy history and changes nothing else.
C12_EnergyCountsTriggered ==
    FreeEnergyComputed =>
        /\ last.result[1] = 0 - Scale * InternalCount(last.pre, TRIGGERED) - GlobalEntropy(last.pre)
        /\ OnlyHistoryAppended

\* C12 amended: E is minus the sum of the internal neurons' state values:
\* a TRIGGERED neuron adds -1, a RECOVERING one -recovery_state_energy_ratio,
\* a RESTING one 0 and a DEAD one +1.
C12_EnergySumsStates ==
    FreeEnergyComputed =>
        /\ last.result[1] =
              0 - (Scale \div 10) * (TRIGGERED * InternalCount(last.pre, TRIGGERED)
                                     + recovery_state_energy_ratio
                                           * InternalCount(last.pre, recovery_state_energy_ratio)
                                     + DEAD * InternalCount(last.pre, DEAD))
                - GlobalEntropy(last.pre)
        /\ OnlyHistoryAppended

\* A free energy computed with TRIGGERED and RECOVERING internal neurons.
C12_Witness ==
    /\ FreeEnergyComputed
    /\ InternalCount(last.pre, TRIGGERED) > 0
    /\ InternalCount(last.pre, recovery_state_energy_ratio) > 0
    /\ Len(network.free_energy_history) = 1

Constructed == last.op = "Network"

\* The names the connectome mentions, as a source or as a target, that are
\* no names of the regions list.
UnknownConnectomeNames ==
    ({e[1] : e \in last.connectome} \cup {e[2] : e \in last.connectome})
        \ RegionNames(last.regions)

\* C13: the construction fails with NetworkInitializationError, and
\* produces no network, when two regions share a name and when the
\* connectome mentions, as a source or as a target, a name that is not in
\* the regions list.
C13_ConstructionErrors ==
    Constructed /\ last.regions # <<>>
                /\ (DuplicateNames(last.regions) \/ UnknownConnectomeNames # {}) =>
        /\ last.error = "NetworkInitializationError"
        /\ network = NoNetwork

\* The periods and delays a punish call samples from the generator g.
SampledPeriods(n, g) ==
    Integers_(g, punish_fn_min_signal_period, punish_fn_max_signal_period,
              Len(sensory_regions_names(n)))

SampledDelays(n, g) ==
    Integers_(SampledPeriods(n, g).rng, 0, punish_fn_period \div 2,
              Len(sensory_regions_names(n))).values

\* The signal of sub-tick i of section 4.4: all-ones iff i >= d and
\* (i - d) mod p = 0.
SpecPunishSignal(n, periods, delays, i) ==
    LET names == sensory_regions_names(n)
    IN  [k \in 1..Len(names) |->
            [name |-> names[k],
             state |-> Full(n.regions[RegionIndex(n.regions, names[k])].size,
                            IF i >= delays[k] /\ (i - delays[k]) % periods[k] = 0
                            THEN TRIGGERED ELSE RESTING)]]

\* The periods some state of the generator makes punish sample.
ObtainablePeriods ==
    {Integer([mock |-> FALSE, s |-> s - 1], punish_fn_min_signal_period,
             punish_fn_max_signal_period) : s \in 1..Len(UTable)}

\* C14: punish samples for each sensory region a period of the closed range
\* punish_fn_min_signal_period..punish_fn_max_signal_period, every value of
\* which can be drawn, and a delay of 0..punish_fn_period/2, then runs
\* punish_fn_period sub-ticks clamping the region to all-ones iff i >= d and
\* (i - d) mod p = 0.
C14_PunishReplay ==
    last.op = "punish" =>
        LET periods == SampledPeriods(last.pre, last.pre_rng).values
            delays == SampledDelays(last.pre, last.pre_rng)
        IN  /\ last.error = "none"
            /\ \A k \in 1..Len(periods) :
                  /\ periods[k] \in punish_fn_min_signal_period..punish_fn_max_signal_period
                  /\ delays[k] \in 0..(punish_fn_period \div 2)
            /\ ObtainablePeriods = punish_fn_min_signal_period..punish_fn_max_signal_period
            /\ Len(last.subticks) = punish_fn_period
            /\ \A i \in 1..Len(last.subticks) :
                  last.subticks[i] = SpecPunishSignal(last.pre, periods, delays, i - 1)

\* The ball's center when the dispatcher of the last step ran: the one the
\* step recorded in env_history after updating the elements.
DispatchedCenter == pong.env_history[Len(pong.env_history)][1]

\* Whether each rule matches a ball centred at c, in the dispatcher's order:
\* top or bottom wall, left wall, right wall, PID paddle, agent paddle.
RuleOrder == <<"wall", "left", "right", "paddle", "agent">>

RuleMatches(c) ==
    <<c.y <= BallRadius \/ PongHeight - c.y <= BallRadius,
      c.x <= BallRadius,
      PongWidth - c.x <= BallRadius,
      Rectangle_collides_with(pong.paddle, c),
      Rectangle_collides_with(pong.agent, c)>>

FirstRule(c) ==
    IF \A i \in 1..Len(RuleOrder) : ~RuleMatches(c)[i] THEN "none"
    ELSE RuleOrder[CHOOSE i \in 1..Len(RuleOrder) :
                       RuleMatches(c)[i] /\ \A h \in 1..(i - 1) : ~RuleMatches(c)[h]]

Stepped == pong.built /\ pong.stage # "init"

\* No entry of the success history was logged at the tick of the last step.
NothingLogged ==
    \A e \in 1..Len(pong.success_rate_history) : pong.success_rate_history[e][2] # pong.timer

\* C15: the dispatcher of a Pong step applies the first rule that matches
\* in the order top or bottom wall, left wall, right wall, PID paddle,
\* agent paddle, and no other: a reflection or a bounce leaves the ball where
\* it is, runs no replay and logs nothing; the left wall runs punish, logs a
\* failure at the tick, regenerates the ball and resets the translator.
C15_FirstMatchingRule ==
    Stepped =>
        /\ pong.rule = FirstRule(DispatchedCenter)
        /\ pong.rule \in {"wall", "paddle", "none"} =>
              /\ pong.replay = 0
              /\ NothingLogged
              /\ pong.ball.center = DispatchedCenter
        /\ pong.rule = "left" /\ pong.error = "none" =>
              /\ pong.replay = punish_fn_period
              /\ pong.success_rate_history[Len(pong.success_rate_history)] = <<FALSE, pong.timer>>
              /\ pong.translator_timer = 0

\* A step in which the ball touches a top or bottom wall and the left wall
\* at once, and is only reflected.
C15_Witness ==
    /\ Stepped
    /\ RuleMatches(DispatchedCenter)[1]
    /\ RuleMatches(DispatchedCenter)[2]
    /\ pong.rule = "wall"
    /\ pong.success_rate_history = <<>>

\* ---- C16
CatchStepped == catch.built /\ catch.stage # "init"

\* The reset that ends a rally: the agent at its initial position, the ball
\* at its fixed initial position with the reference speed, the translator
\* timer at -1, and the entry (success, tick) appended to the log.
RallyEnded(success) ==
    /\ catch.error = "none"
    /\ catch.dispatched.success_history =
           Append(catch.updated.success_history, <<success, catch.timer>>)
    /\ catch.dispatched.agent.center = catch.agent_initial_position
    /\ catch.dispatched.ball = [center |-> catch.ball_initial_position,
                                speed |-> catch.ball_reference_speed]
    /\ catch.dispatched.translator_timer = 0 - 1

OnlyBounced ==
    /\ catch.dispatched.success_history = catch.updated.success_history
    /\ catch.dispatched.agent = catch.updated.agent
    /\ catch.dispatched.ball.center = catch.updated.ball.center
    /\ catch.dispatched.translator_timer = catch.updated.translator_timer
    /\ catch.dispatched.network = catch.updated.network
    /\ catch.dispatched.rng = catch.updated.rng
    /\ catch.dispatched.ball.speed =
           resolve_collision_with_paddle(catch.updated.ball, catch.updated.agent).ball.speed

\* C16: in Catch a step in which the ball reaches the left wall runs punish,
\* appends the failure entry (0, tick) and resets the agent, the ball and the
\* translator timer; a collision with the front face of the agent runs
\* reward, appends the success entry (1, tick) and performs the same reset; a
\* collision with another face only changes the speed of the ball and logs
\* nothing; reaching the right wall raises an error.
C16_CatchRules ==
    CatchStepped =>
        /\ catch.rule = "left" =>
               /\ RallyEnded(FALSE)
               /\ \E r \in {punish(catch.updated.network, catch.updated.rng)} :
                      r.error = "none" /\ catch.dispatched.network = r.network
        /\ catch.rule = "front" =>
               /\ RallyEnded(TRUE)
               /\ \E r \in {reward(catch.updated.network, catch.updated.rng)} :
                      r.error = "none" /\ catch.dispatched.network = r.network
        /\ catch.rule = "face" => OnlyBounced
        /\ catch.rule = "right" => catch.error = "ValueError"

\* ---- C17
\* The translator ran in the last step: the counter it found, the ball it
\* read and what it returned.
TranslatorCalled == catch.built /\ catch.stage \in {"done", "propagate"}

CounterBefore == catch.dispatched.translator_timer

Emitted == catch.sensory_signal # NoSignal

\* counter >= T with T = frequency / f and f = f_max + (x / W)(f_min - f_max).
CounterDue ==
    CounterBefore * (max_frequency * PongWidth
                     + catch.dispatched.ball.center.x * (min_frequency - max_frequency))
        >= PongFrequency * PongWidth

\* min(floor(y / (H / R)), R - 1), slots counted from 0.
TopographicSlot ==
    Min((catch.dispatched.ball.center.y * Len(TranslatorNames)) \div PongHeight,
        Len(TranslatorNames) - 1)

SensoryRegionSize(name) ==
    LET k == CHOOSE k \in 1..Len(network.regions) : network.regions[k].name = name
    IN  network.regions[k].size

\* C17: the translator emits on the first call after construction or
\* reset_timer and afterwards exactly on the calls where its counter is >= T;
\* an emitting call resets the counter to 0 and returns a map in which the
\* region of slot k is all-ones and every other sensory region all-zeros, each
\* vector of the region's size; a non-emitting call returns no update and
\* increments the counter by one.
C17_TranslatorSignal ==
    TranslatorCalled =>
        /\ Emitted <=> (CounterBefore = 0 - 1 \/ CounterDue)
        /\ Emitted =>
               /\ catch.translator_timer = 0
               /\ Len(catch.sensory_signal) = Len(TranslatorNames)
               /\ \E k \in 1..Len(TranslatorNames) :
                      /\ k - 1 = TopographicSlot
                      /\ catch.sensory_signal[k].state =
                             Full(SensoryRegionSize(TranslatorNames[k]), TRIGGERED)
               /\ \A k \in 1..Len(TranslatorNames) :
                      /\ catch.sensory_signal[k].name = TranslatorNames[k]
                      /\ k - 1 # TopographicSlot =>
                             catch.sensory_signal[k].state =
                                 Full(SensoryRegionSize(TranslatorNames[k]), RESTING)
        /\ ~Emitted => catch.translator_timer = CounterBefore + 1

\* ---- C18
MotorSignalRead == last.op = "get_motor_signal" /\ last.error = "none"

\* The neurons of the region of that name, as positions of the full state.
NeuronsOf(n, name) == get_neurons_index(n.regions, RegionIndex(n.regions, name))

\* The mean state of a region in one snapshot (tenths), in Scale units.
SnapshotMean(n, snapshot, name) ==
    LET idx == NeuronsOf(n, name)
        total == SumSeq([i \in 1..Len(idx) |-> snapshot[idx[i]]], Len(idx))
    IN  (total * (Scale \div 10)) \div Len(idx)

\* The sum over the snapshots of the history of the region's mean, over H.
WindowMean(n, name) ==
    SumSeq([h \in 1..Len(n.state_history) |-> SnapshotMean(n, n.state_history[h], name)],
           Len(n.state_history)) \div state_history_size

Identically(n, name, value) ==
    \A h \in 1..Len(n.state_history) :
        \A i \in 1..Len(NeuronsOf(n, name)) :
            n.state_history[h][NeuronsOf(n, name)[i]] = value

\* C18: get_motor_signal(names) returns one scalar per name, in the order of
\* the names, each the sum over the H snapshots of the state history of the
\* region's mean state, divided by H: 1.0 for a region all 1.0 in each
\* snapshot, 0.0 for a region all zero in each of them.
C18_MotorSignal ==
    MotorSignalRead =>
        /\ Len(last.result) = Len(last.arg)
        /\ Len(last.pre.state_history) = state_history_size
        /\ \A a \in 1..Len(last.arg) :
               /\ last.result[a] = WindowMean(last.pre, last.arg[a])
               /\ Identically(last.pre, last.arg[a], TRIGGERED) => last.result[a] = Scale
               /\ Identically(last.pre, last.arg[a], RESTING) => last.result[a] = 0

\* A signal read for two regions whose values differ, one of them all 1.0 in
\* both snapshots, from a history whose snapshots differ.
C18_Witness ==
    /\ MotorSignalRead
    /\ Len(last.arg) >= 2
    /\ last.result[1] # last.result[2]
    /\ last.pre.state_history[1] # last.pre.state_history[2]
    /\ \E a \in 1..Len(last.arg) : Identically(last.pre, last.arg[a], TRIGGERED)

\* ---- C19
\* A propagate_signal call that returned.
PropagateReturned == last.op = "propagate_signal" /\ last.error = "none"

\* C19: after construction and after any sequence of propagate_signal,
\* set_state, reward, punish and optimize_connections calls the state history
\* holds exactly state_history_size snapshots, at first that many copies of
\* the initial state; each propagate_signal pushes the new full state as the
\* newest entry and evicts the oldest one, the others keeping their order.
C19_HistoryBounded ==
    /\ Len(network.state_history) = state_history_size
    /\ last.op = "init" =>
           \A h \in 1..state_history_size : network.state_history[h] = get_state(network)
    /\ PropagateReturned =>
           /\ network.state_history[state_history_size] = get_state(network)
           /\ \A h \in 1..(state_history_size - 1) :
                  network.state_history[h] = last.pre.state_history[h + 1]

\* A propagate_signal call that evicts a snapshot unlike the one it keeps and
\* pushes a state unlike both.
C19_Witness ==
    /\ PropagateReturned
    /\ last.pre.state_history[1] # last.pre.state_history[2]
    /\ get_state(network) # last.pre.state_history[1]
    /\ get_state(network) # last.pre.state_history[2]
    /\ network.state_history = <<last.pre.state_history[2], get_state(network)>>

\* ---- C20
\* The shapes of the elements of a Catch simulation as they were at t=0.
ShapesAtConstruction ==
    <<[center |-> catch.ball_initial_position, radius |-> BallRadius],
      [center |-> catch.agent_initial_position, width |-> 2 * PaddleHalfWidth,
       height |-> 2 * PaddleHalfHeight, orientation |-> 0]>>

\* The entries after the shape snapshot: one tuple of centers for t=0 and
\* one per step.
OneTuplePerStep == Len(catch.env_history) = catch.timer + 2

\* A step appends one tuple of centers, those the elements had after their
\* update, and adds one to the tick counter.
StepAppendsCenters ==
    /\ catch'.timer = catch.timer + 1
    /\ catch'.env_history[Len(catch'.env_history)]
           = <<catch'.updated.ball.center, catch'.updated.agent.center>>
    /\ Len(catch'.env_history) = Len(catch.env_history) + 1

EntriesKept ==
    \A i \in 1..Len(catch.env_history) : catch'.env_history[i] = catch.env_history[i]

\* C20: after t steps env_history is the shape snapshot taken at t=0, still
\* describing the shapes (centers included) as they were at t=0, followed by
\* the tuples of centers in tick order, one per step; no recorded entry is
\* altered by a later step and the tick counter grows by one per step.
C20_EnvHistory ==
    [][(catch.built /\ catch' # catch) =>
           /\ StepAppendsCenters
           /\ EntriesKept
           /\ catch'.env_history[1] = ShapesAtConstruction']_vars

\* The same without the shape snapshot: the tuples of centers alone.
C20_CentersKept ==
    [][(catch.built /\ catch' # catch) =>
           /\ StepAppendsCenters
           /\ \A i \in 2..Len(catch.env_history) :
                  catch'.env_history[i] = catch.env_history[i]]_vars

\* ---- C21
Optimized == last.op = "optimize_connections" /\ last.error = "none"

\* The neuron i belongs to an external region.
ExternalNeuron(n, i) == ~n.regions[RegionOf(n.regions, i)].internal

\* C21: optimize_connections changes only non-sentinel entries of the
\* internal x internal submatrix of the connection matrix: an entry whose
\* source or target neuron is external is left unchanged, a sentinel stays a
\* sentinel, and the region states and the state history are left unchanged.
C21_OptimizeFrame ==
    Optimized =>
        /\ \A i, j \in 1..Len(network.state) :
               /\ (ExternalNeuron(network, i) \/ ExternalNeuron(network, j)) =>
                      network.conformation[i][j] = last.pre.conformation[i][j]
               /\ last.pre.conformation[i][j] = NaN => network.conformation[i][j] = NaN
        /\ network.region_state = last.pre.region_state
        /\ network.state = last.pre.state
        /\ network.state_history = last.pre.state_history
        /\ network.regions = last.pre.regions

\* A call that changed an internal entry of a matrix that also has an edge
\* from an external neuron and a sentinel inside the internal submatrix.
C21_Witness ==
    /\ Optimized
    /\ network.conformation # last.pre.conformation
    /\ \E i, j \in 1..Len(network.state) :
           /\ ExternalNeuron(network, j) /\ ~ExternalNeuron(network, i)
           /\ last.pre.conformation[i][j] # NaN
    /\ \E i, j \in 1..Len(network.state) :
           /\ ~ExternalNeuron(network, i) /\ ~ExternalNeuron(network, j)
           /\ last.pre.conformation[i][j] = NaN

\* ---- C22
UnitInterval(c) == 0 <= c /\ c <= Scale

\* C22: the non-sentinel entries of the matrix lying in [0, 1] at
\* construction, they still lie in [0, 1] after any sequence of
\* optimize_connections calls interleaved with propagate_signal, reward and
\* punish calls (the sentinels staying where they were).
C22_EntriesInUnitInterval ==
    \A i, j \in 1..Len(network.state) :
        /\ network.conformation[i][j] # NaN => UnitInterval(network.conformation[i][j])
        /\ network.conformation[i][j] = NaN <=> last.pre.conformation[i][j] = NaN

\* Two calls that both changed a matrix holding the entries 0 and 1, the
\* last one a reward or a punish replay.
C22_Witness ==
    /\ Len(trace) = 2
    /\ last.op \in {"reward", "punish"} /\ last.error = "none"
    /\ network.conformation # last.pre.conformation
    /\ last.pre.conformation # EdgeConformation
    /\ \E i, j \in 1..Len(network.state) : network.conformation[i][j] = Scale
    /\ \E i, j \in 1..Len(network.state) : network.conformation[i][j] = 0

\* ---- C23
BallUpdated == last.op = "update"

\* The speed Element.update leaves before adjust_speed looks at it.
Accelerated == Add(last.made.speed, last.acceleration)

InEnvelope(speed) ==
    /\ BallMinSpeed * BallMinSpeed <= squared_norm(speed)
    /\ squared_norm(speed) <= BallMaxSpeed * BallMaxSpeed

\* On the grid: the components keep their signs and the speed its sense.
SameDirection(a, b) == a.x * b.x >= 0 /\ a.y * b.y >= 0 /\ Dot(a, b) > 0

\* On the grid: the magnitude is the bound up to one unit per component.
AtBound(speed, bound) ==
    LET inner == [x |-> Max(Abs(speed.x) - 1, 0), y |-> Max(Abs(speed.y) - 1, 0)]
        outer == [x |-> Abs(speed.x) + 1, y |-> Abs(speed.y) + 1]
    IN  squared_norm(inner) <= bound * bound /\ bound * bound <= squared_norm(outer)

\* C23: after every Ball.update the magnitude of the speed lies in
\* [v_min, v_max]: a speed that, the acceleration added, is below v_min or
\* above v_max is rescaled to the nearest bound keeping its direction, any
\* other is left as is; the update completes for every speed and acceleration.
C23_SpeedEnvelope ==
    BallUpdated =>
        /\ last.error = "none"
        /\ last.ball.center = Add(last.made.center, last.made.speed)
        /\ InEnvelope(last.ball.speed)
        /\ InEnvelope(Accelerated) => last.ball.speed = Accelerated
        /\ squared_norm(Accelerated) > BallMaxSpeed * BallMaxSpeed =>
               SameDirection(Accelerated, last.ball.speed)
               /\ AtBound(last.ball.speed, BallMaxSpeed)
        /\ squared_norm(Accelerated) < BallMinSpeed * BallMinSpeed =>
               SameDirection(Accelerated, last.ball.speed)
               /\ AtBound(last.ball.speed, BallMinSpeed)

\* ---- C24
Generated == last.op = "graph_generation_fn"

SelfReferring == last.fn = "self_referring_fixed_average_transmission"

\* The call is one the claim covers: any sizes, equal ones for a region
\* referring to itself.
CoveredCall == Generated /\ (SelfReferring => last.target = last.source)

RowWithinTolerance(row) ==
    LET entries == {j \in DOMAIN row : row[j] # NaN}
    IN  entries # {} =>
            Abs(RowSum(row, Len(row)) - last.transmission_average * Cardinality(entries))
                < last.tolerance * Cardinality(entries)

FixedAverageMatrix ==
    /\ Len(last.conformation) = last.target
    /\ \A i \in 1..last.target :
           /\ Len(last.conformation[i]) = last.source
           /\ \A j \in 1..last.source :
                  IF SelfReferring /\ i = j
                  THEN last.conformation[i][j] = NaN
                  ELSE last.conformation[i][j] \in 0..Scale
           /\ RowWithinTolerance(last.conformation[i])

\* C24: for every mean in (0,1), every tolerance and all sizes, the function
\* returned by fixed_average_transmission returns a target x source matrix with
\* entries in [0,1] whose every row mean is within the tolerance of the mean;
\* the one returned by self_referring_fixed_average_transmission, for equal
\* sizes, returns such a matrix with the sentinel on the diagonal and every
\* row mean, diagonal excluded, within the tolerance.
C24_FixedAverage == CoveredCall => last.error = "none" /\ FixedAverageMatrix

\* ---- C28
\* Rescaling a row of the draw to the requested mean pushes an entry above 1.
ClippingDraw ==
    \E i \in 1..last.target :
        LET row == [j \in 1..last.source |->
                       IF SelfReferring /\ i = j THEN NaN ELSE last.uniform[i][j]]
        IN  \E j \in 1..last.source :
                /\ row[j] # NaN
                /\ last.transmission_average * RowCount(row) * row[j] > Scale * RowSum(row, Len(row))

\* C28: every call of a function returned by fixed_average_transmission or
\* self_referring_fixed_average_transmission terminates, for every mean,
\* tolerance, sizes and uniform draw, the draws whose rescaled rows are clipped
\* included.
C28_GenerationTerminates == Generated => last.error # "never returns"

\* ---- C25
\* The two simulations have been stepped the same number of times.
SteppedAlike == Len(pong.env_history) = Len(last.sim.env_history)

PropagationDone == last.op = "propagate_signal" /\ last.error = "none"

\* The regions the call clamps, and the states its update loop reads.
ClampedNames == SignalNames(IF last.arg = NoSignal THEN <<>> ELSE last.arg)

LoopState == get_state(ClampedNetwork(last.pre, last.arg))

\* The neurons that are neither in a clamped region nor DEAD.
DrawingNeurons ==
    {i \in 1..Len(LoopState) :
        /\ last.pre.regions[RegionOf(last.pre.regions, i)].name \notin ClampedNames
        /\ LoopState[i] # DEAD}

RECURSIVE Advanced(_, _)
Advanced(g, k) == IF k = 0 THEN g ELSE Advance(Advanced(g, k - 1))

\* C26: every propagate_signal call consumes exactly one uniform draw for each
\* neuron that is neither in a clamped region nor DEAD, whatever its state
\* (RESTING, RECOVERING or TRIGGERED), and draws in region assembly order and,
\* inside a region, in ascending neuron index.
C26_OneDrawPerNeuron ==
    PropagationDone =>
        /\ {last.draws[k].neuron : k \in 1..Len(last.draws)} = DrawingNeurons
        /\ Len(last.draws) = Cardinality(DrawingNeurons)
        /\ \A k \in 1..(Len(last.draws) - 1) : last.draws[k].neuron < last.draws[k + 1].neuron
        /\ \A k \in 1..Len(last.draws) : last.draws[k].u = Uniform(Advanced(last.pre_rng, k - 1))
        /\ rng = Advanced(last.pre_rng, Len(last.draws))

\* ---- C27
\* The internal neurons of the call, and their states in the regions and in
\* the snapshot before the newest one.
InternalNeurons == {i \in 1..Len(get_state(last.pre)) :
                       last.pre.regions[RegionOf(last.pre.regions, i)].internal}

TriggeredNow(i) == get_state(last.pre)[i] = TRIGGERED

TriggeredBefore(i) == last.pre.state_history[Len(last.pre.state_history) - 1][i] = TRIGGERED

\* The values the claim allows the entry (i, j) to end with: decayed, then
\* weakened when its source j is TRIGGERED, and strengthened when its target i
\* is TRIGGERED and its source j was; the claim leaves open which comes first.
ClaimedEntries(i, j) ==
    LET decayed == Decay(last.pre.conformation[i][j])
        weakened == TriggeredNow(j)
        strengthened == TriggeredNow(i) /\ TriggeredBefore(j)
    IN  IF weakened /\ strengthened
        THEN {Strengthen(Explore(decayed)), Explore(Strengthen(decayed))}
        ELSE IF weakened THEN {Explore(decayed)}
        ELSE IF strengthened THEN {Strengthen(decayed)}
        ELSE {decayed}

\* C27: optimize_connections makes every internal entry c into
\* alpha + (1 - alpha) c, then multiplies by (1 - epsilon) every entry whose
\* source is TRIGGERED in the current state and raises to the power beta every
\* entry whose target is TRIGGERED in the current state and whose source was
\* TRIGGERED in the snapshot before the newest; nothing else is weakened or
\* strengthened.
C27_OptimizeRule ==
    Optimized =>
        \A i, j \in InternalNeurons : network.conformation[i][j] \in ClaimedEntries(i, j)

\* A call that decays only, weakens only, strengthens only and does both.
C27_Witness ==
    /\ Optimized
    /\ \E i, j \in InternalNeurons :
           /\ i # j
           /\ TriggeredNow(j) /\ TriggeredNow(i) /\ TriggeredBefore(j) /\ ~TriggeredBefore(i)
           /\ network.conformation[i][j] # Decay(last.pre.conformation[i][j])
           /\ network.conformation[j][i] = Explore(Decay(last.pre.conformation[j][i]))
           /\ network.conformation[j][i] # Decay(last.pre.conformation[j][i])

\* ---- C29
\* set_state(speed=v) has been called; v is kept in the acceleration field.
SpeedSubmitted == last.op = "set_state"

Reflected == last.op = "reflection"

\* C29: Ball.set_state(speed=v) accepts every speed whose magnitude is in
\* [v_min, v_max], bounds included, and rejects only the others; so the wall
\* reflection, which submits a speed of the magnitude the ball has, never
\* fails, the step after Ball.update rescaled the speed to a bound included.
C29_ClosedEnvelope ==
    /\ SpeedSubmitted =>
           /\ last.error = "none" <=> InEnvelope(last.acceleration)
           /\ last.error # "none" <=> last.error = "ValueError"
           /\ last.ball.speed = (IF InEnvelope(last.acceleration) THEN last.acceleration
                                 ELSE last.made.speed)
    /\ Reflected =>
           /\ last.error = "none"
           /\ last.ball.speed = [x |-> last.updated.speed.x, y |-> 0 - last.updated.speed.y]

\* ---- C30
InternalNames == {network.regions[k].name : k \in {h \in 1..Len(network.regions) :
                                                     network.regions[h].internal}}

\* Since the construction the internal regions have been updated by
\* propagate_signal only: no call has clamped one, none has set the state.
OnlyPropagated ==
    \A k \in 1..Len(trace) :
        /\ trace[k].op # "set_state"
        /\ trace[k].op = "propagate_signal" /\ trace[k].arg # NoSignal =>
               \A e \in 1..Len(trace[k].arg) : trace[k].arg[e].name \notin InternalNames

InternalOf(n) == {i \in 1..Len(get_state(n)) : n.regions[RegionOf(n.regions, i)].internal}

\* The neurons visited from the last to the first.
RECURSIVE VisitDescending(_, _, _, _)
VisitDescending(ic, cur_state, last_state, a) ==
    IF a > Len(cur_state) THEN ic
    ELSE LET before == VisitDescending(ic, cur_state, last_state, a + 1)
         IN  IF cur_state[a] = TRIGGERED
             THEN VisitNeighbors(before, a, last_state, Len(last_state))
             ELSE before

OptimizedDescending(n) ==
    LET ic0 == get_internal_conformation(n)
        decayed == [a \in 1..Len(ic0) |-> [b \in 1..Len(ic0) |-> Decay(ic0[a][b])]]
    IN  VisitDescending(decayed, get_internal_state(n), get_last_internal_state(n), 1)

====
